---------------------------- MODULE Spec2Model ----------------------------
(***************************************************************************)
(* A model of openblack's pack file reader/writer                          *)
(* (components/pack/src/PackFile.cpp).                                     *)
(*                                                                         *)
(* Bytes are naturals in 0..255, byte strings and block names are          *)
(* sequences of bytes (names are ASCII codes), integers of the wire format *)
(* are 4-byte little-endian.  A PackFile instance is the ten fields        *)
(* below; every public operation is one action that runs the whole         *)
(* member function, an exception thrown by Fail ending it early.           *)
(***************************************************************************)
EXTENDS Integers, Sequences, FiniteSets, TLC

VARIABLES
    _filename,            \* std::filesystem::path
    _isLoaded,            \* bool
    _blocks,              \* name -> bytes, kept in iteration order
    _infoBlockLookup,     \* vector of [blockId, unknown]
    _bodyBlockLookup,     \* vector of [offset, unknown]
    _audioSampleHeaders,  \* vector of 640-byte sample headers
    _textures,            \* name -> [header, ddsHeader, texels], in order
    _meshes,              \* vector of byte vectors
    _animations,          \* vector of byte vectors
    _audioSampleData,     \* vector of byte vectors
    disk,                 \* the one file of the file system: [exists, bytes]
    assertsEnabled,       \* the build: FALSE when compiled with NDEBUG
    aborted,              \* an assert failed: the process is gone
    call,                 \* the last call: [op, input, ...]
    error,                \* what the last call threw, or NoError
    stagesRun,            \* the stages the last Open entered, in order
    authored,             \* the block store the last successful Write wrote
    hasWritten,           \* the instance at hand has completed a Write
    nops,                 \* number of calls made so far
    reading,              \* a ReadBlocks running step by step: [pc, s, ...]
    _instance,            \* EventQueue: std::list<T> of events
    _handlers,            \* EventQueue: std::vector<EventHandler<T>>
    frames,               \* the Produce calls on the stack, innermost last
    produced,             \* every Produce call made: [event, handlers, state]
    delivered             \* every handler invocation: [call, handler, event]

\* the variables of the PackFile calls
fileVars == <<_filename, _isLoaded, _blocks, _infoBlockLookup,
              _bodyBlockLookup, _audioSampleHeaders, _textures, _meshes,
              _animations, _audioSampleData, disk, assertsEnabled, aborted,
              call, error, stagesRun, authored, hasWritten, nops>>

\* the variables of the EventQueue
queueVars == <<_instance, _handlers, frames, produced, delivered>>

vars == <<fileVars, reading, queueVars>>

-----------------------------------------------------------------------------
(* Program constants *)

\* k_Magic, "LiOnHeAd"
k_Magic == <<76, 105, 79, 110, 72, 101, 65, 100>>
\* k_BlockMagic, "MKJC"
k_BlockMagic == <<77, 75, 74, 67>>
\* PackBlockHeader::k_BlockNameSize
k_BlockNameSize == 32
\* sizeof(PackBlockHeader): 32 bytes of name and a uint32_t
SizeofPackBlockHeader == 36
\* sizeof(uint32_t)
SizeofU32 == 4

\* the block names the code knows, as ASCII
NameINFO == <<73, 78, 70, 79>>
NameMESHES == <<77, 69, 83, 72, 69, 83>>
NameBody == <<66, 111, 100, 121>>
NameAudioTable == <<76, 72, 65, 117, 100, 105, 111, 66, 97, 110, 107, 83, 97,
                    109, 112, 108, 101, 84, 97, 98, 108, 101>>
NameWaveData == <<76, 72, 65, 117, 100, 105, 111, 87, 97, 118, 101, 68, 97,
                  116, 97>>

-----------------------------------------------------------------------------
(* Bytes and integers *)

Min(a, b) == IF a < b THEN a ELSE b

Zeros(n) == [i \in 1..n |-> 0]

\* a uint32_t as it lies in memory (little-endian host); the model's values
\* stay below 2^31, so the cast to uint32_t changes none of them
LE32(n) ==
    <<n % 256, (n \div 256) % 256, (n \div 65536) % 256,
      (n \div 16777216) % 256>>

\* the uint32_t that 4 bytes of memory hold
U32(b) == b[1] + 256 * b[2] + 65536 * b[3] + 16777216 * b[4]

\* a C string: the bytes before the first NUL (all of them when there is none)
RECURSIVE CStr(_)
CStr(b) ==
    IF b = <<>> \/ Head(b) = 0 THEN <<>> ELSE <<Head(b)>> \o CStr(Tail(b))

\* snprintf(buf, size, "%s", name): at most size-1 characters and a NUL; the
\* bytes of buf after the NUL keep what they held
SnprintfS(buf, size, name) ==
    LET n == Min(Len(CStr(name)), size - 1)
    IN  SubSeq(CStr(name), 1, n) \o <<0>> \o SubSeq(buf, n + 2, Len(buf))

-----------------------------------------------------------------------------
(* Input streams: std::ifstream and imemstream, [buf, pos, fail] *)

IStream(bytes) == [buf |-> bytes, pos |-> 0, fail |-> FALSE]

\* stream.read(dst, n): all n bytes, or what is left and failbit|eofbit;
\* nothing when the stream has failed already
StreamRead(s, n) ==
    IF s.fail THEN [s |-> s, got |-> <<>>]
    ELSE IF s.pos + n <= Len(s.buf)
         THEN [s |-> [s EXCEPT !.pos = @ + n],
               got |-> SubSeq(s.buf, s.pos + 1, s.pos + n)]
         ELSE [s |-> [s EXCEPT !.pos = Len(s.buf), !.fail = TRUE],
               got |-> SubSeq(s.buf, s.pos + 1, Len(s.buf))]

\* x > static_cast<std::size_t>(stream.tellg()) and x < ...: tellg() is -1 on
\* a failed stream, the largest std::size_t once cast
GreaterThanTellg(x, s) == ~s.fail /\ x > s.pos
LessThanTellg(x, s) == s.fail \/ x < s.pos

\* memory that was read into: the bytes read over what the memory held
ReadInto(old, got) == got \o SubSeq(old, Len(got) + 1, Len(old))

-----------------------------------------------------------------------------
(* The block store *)

BlockNames(blocks) == {blocks[i].name : i \in 1..Len(blocks)}

HasBlock(blocks, name) == name \in BlockNames(blocks)

BlockIndex(blocks, name) ==
    CHOOSE i \in 1..Len(blocks) : blocks[i].name = name

GetBlock(blocks, name) == blocks[BlockIndex(blocks, name)].data

\* _blocks[name] = data
SetBlock(blocks, name, data) ==
    IF HasBlock(blocks, name)
    THEN [blocks EXCEPT ![BlockIndex(blocks, name)].data = data]
    ELSE Append(blocks, [name |-> name, data |-> data])

-----------------------------------------------------------------------------
(* Errors *)

NoError == [what |-> "none", arg |-> <<>>, filename |-> ""]

\* PackFile::Fail: throws, the message carrying the file name
Fail(msg, arg, filename) == [what |-> msg, arg |-> arg, filename |-> filename]

-----------------------------------------------------------------------------
(* Container framing *)

\* the loop of ReadBlocks; iters counts the headers read
RECURSIVE ReadBlocksLoop(_, _, _, _, _)
ReadBlocksLoop(blocks, s, fsize, filename, iters) ==
    IF ~GreaterThanTellg(fsize - SizeofPackBlockHeader, s)
    THEN [blocks |-> blocks, s |-> s, err |-> NoError, iters |-> iters]
    ELSE LET rh == StreamRead(s, SizeofPackBlockHeader)
             \* header.blockName.data() read as a C string: it ends at the
             \* first NUL, which lies in blockSize when the name has none
             name == CStr(rh.got)
             blockSize == U32(SubSeq(rh.got, k_BlockNameSize + 1,
                                     SizeofPackBlockHeader))
         IN  IF HasBlock(blocks, name)
             THEN [blocks |-> blocks, s |-> rh.s,
                   err |-> Fail("Duplicate block name", name, filename),
                   iters |-> iters + 1]
             ELSE LET rp == StreamRead(rh.s, blockSize)
                      data == ReadInto(Zeros(blockSize), rp.got)
                  IN  ReadBlocksLoop(SetBlock(blocks, name, data), rp.s,
                                     fsize, filename, iters + 1)

\* ReadBlocks without the comparison of the first 8 bytes: a faulty variant
\* that header validation must tell from ReadBlocks
ReadBlocksAnyMagic(blocks, bytes, filename) ==
    LET fsize == Len(bytes)
        none == [blocks |-> blocks, iters |-> 0]
    IN  IF fsize < Len(k_Magic) + SizeofPackBlockHeader
        THEN none @@ [err |-> Fail("File too small to be a valid Pack file.",
                                   <<>>, filename)]
        ELSE
        LET rm == StreamRead(IStream(bytes), Len(k_Magic))
            r == ReadBlocksLoop(blocks, rm.s, fsize, filename, 0)
        IN  IF r.err = NoError /\ LessThanTellg(fsize, r.s)
            THEN [blocks |-> r.blocks, iters |-> r.iters,
                  err |-> Fail("File not evenly split into whole blocks.",
                               <<>>, filename)]
            ELSE [blocks |-> r.blocks, iters |-> r.iters, err |-> r.err]

\* PackFile::ReadBlocks on a stream holding bytes: [blocks, err, iters]
ReadBlocks(blocks, bytes, filename) ==
    LET fsize == Len(bytes)
        none == [blocks |-> blocks, iters |-> 0]
    IN  IF fsize < Len(k_Magic) + SizeofPackBlockHeader
        THEN none @@ [err |-> Fail("File too small to be a valid Pack file.",
                                   <<>>, filename)]
        ELSE
        LET rm == StreamRead(IStream(bytes), Len(k_Magic))
        IN  IF rm.got # k_Magic
            THEN none @@ [err |-> Fail("Unrecognized Pack header", <<>>,
                                       filename)]
            ELSE IF fsize < rm.s.pos + SizeofPackBlockHeader
            THEN none @@ [err |-> Fail("File too small to contain any blocks.",
                                       <<>>, filename)]
            ELSE
            LET r == ReadBlocksLoop(blocks, rm.s, fsize, filename, 0)
            IN  IF r.err = NoError /\ LessThanTellg(fsize, r.s)
                THEN [blocks |-> r.blocks, iters |-> r.iters,
                      err |-> Fail("File not evenly split into whole blocks.",
                                   <<>>, filename)]
                ELSE [blocks |-> r.blocks, iters |-> r.iters, err |-> r.err]

\* the loop of WriteBlocks were it to pad every payload to an even length: a
\* faulty variant that the framing of the output must tell from WriteBlocks
RECURSIVE WriteBlocksLoopPadded(_, _, _)
WriteBlocksLoopPadded(blocks, i, nameBuf) ==
    IF i > Len(blocks) THEN <<>>
    ELSE LET blockName == SnprintfS(nameBuf, k_BlockNameSize, blocks[i].name)
             blockSize == Len(blocks[i].data)
         IN  blockName \o LE32(blockSize) \o blocks[i].data
                 \o Zeros(blockSize % 2)
                 \o WriteBlocksLoopPadded(blocks, i + 1, blockName)

\* the loop of WriteBlocks were it to walk the store from its last block to
\* its first: a faulty variant
RECURSIVE WriteBlocksLoopReversed(_, _, _)
WriteBlocksLoopReversed(blocks, i, nameBuf) ==
    IF i > Len(blocks) THEN <<>>
    ELSE LET b == blocks[Len(blocks) + 1 - i]
             blockName == SnprintfS(nameBuf, k_BlockNameSize, b.name)
         IN  blockName \o LE32(Len(b.data)) \o b.data
                 \o WriteBlocksLoopReversed(blocks, i + 1, blockName)

\* the loop of WriteBlocks from block i on; nameBuf is header.blockName, which
\* the loop never clears
RECURSIVE WriteBlocksLoop(_, _, _)
WriteBlocksLoop(blocks, i, nameBuf) ==
    IF i > Len(blocks) THEN <<>>
    ELSE LET blockName == SnprintfS(nameBuf, k_BlockNameSize, blocks[i].name)
             blockSize == Len(blocks[i].data)
         IN  blockName \o LE32(blockSize) \o blocks[i].data
                 \o WriteBlocksLoop(blocks, i + 1, blockName)

\* PackFile::WriteBlocks: the bytes written; uninit is what the uninitialized
\* header.blockName holds when the function starts
WriteBlocks(blocks, uninit) == k_Magic \o WriteBlocksLoop(blocks, 1, uninit)

-----------------------------------------------------------------------------
(* ReadBlocks step by step: r is [pc, s, blocks, err, iters], pc being      *)
(* "loop" at the head of the while loop and "done" once the function has    *)
(* returned or thrown; iters counts the iterations made.                    *)

NotReading ==
    [pc |-> "idle", s |-> IStream(<<>>), blocks |-> <<>>, err |-> NoError,
     iters |-> 0]

\* ReadBlocks from its entry to the head of the loop
ReadBlocksEnter(bytes, filename) ==
    LET fsize == Len(bytes)
        rm == StreamRead(IStream(bytes), Len(k_Magic))
        Stop(s, msg) == [pc |-> "done", s |-> s, blocks |-> <<>>,
                         err |-> Fail(msg, <<>>, filename), iters |-> 0]
    IN  IF fsize < Len(k_Magic) + SizeofPackBlockHeader
        THEN Stop(IStream(bytes), "File too small to be a valid Pack file.")
        ELSE IF rm.got # k_Magic
        THEN Stop(rm.s, "Unrecognized Pack header")
        ELSE IF fsize < rm.s.pos + SizeofPackBlockHeader
        THEN Stop(rm.s, "File too small to contain any blocks.")
        ELSE [pc |-> "loop", s |-> rm.s, blocks |-> <<>>, err |-> NoError,
              iters |-> 0]

\* while (fsize - sizeof(PackBlockHeader) > tellg())
ReadBlocksContinues(r) ==
    GreaterThanTellg(Len(r.s.buf) - SizeofPackBlockHeader, r.s)

\* one iteration of the loop were the header read without moving the get
\* pointer: a faulty variant
ReadBlocksIterationPeeking(r, filename) ==
    LET rh == StreamRead(r.s, SizeofPackBlockHeader)
        name == CStr(rh.got)
        blockSize == U32(SubSeq(rh.got, k_BlockNameSize + 1,
                                SizeofPackBlockHeader))
    IN  IF HasBlock(r.blocks, name)
        THEN [r EXCEPT !.pc = "done", !.iters = @ + 1,
                       !.err = Fail("Duplicate block name", name, filename)]
        ELSE LET rp == StreamRead(r.s, blockSize)
             IN  [r EXCEPT !.s = rp.s, !.iters = @ + 1,
                           !.blocks = SetBlock(@, name,
                                               ReadInto(Zeros(blockSize),
                                                        rp.got))]

\* one iteration of the loop: the header is read, then the payload
ReadBlocksIteration(r, filename) ==
    LET rh == StreamRead(r.s, SizeofPackBlockHeader)
        name == CStr(rh.got)
        blockSize == U32(SubSeq(rh.got, k_BlockNameSize + 1,
                                SizeofPackBlockHeader))
    IN  IF HasBlock(r.blocks, name)
        THEN [r EXCEPT !.pc = "done", !.s = rh.s, !.iters = @ + 1,
                       !.err = Fail("Duplicate block name", name, filename)]
        ELSE LET rp == StreamRead(rh.s, blockSize)
             IN  [r EXCEPT !.s = rp.s, !.iters = @ + 1,
                           !.blocks = SetBlock(@, name,
                                               ReadInto(Zeros(blockSize),
                                                        rp.got))]

\* the check after the loop, and the return
ReadBlocksLeave(r, filename) ==
    IF LessThanTellg(Len(r.s.buf), r.s)
    THEN [r EXCEPT !.pc = "done",
                   !.err = Fail("File not evenly split into whole blocks.",
                                <<>>, filename)]
    ELSE [r EXCEPT !.pc = "done"]

-----------------------------------------------------------------------------
(* Block synthesis: each returns [blocks, err] *)

\* CreateRawBlock without its HasBlock guard: a faulty variant that overwrites
CreateRawBlockOverwriting(blocks, name, data, filename) ==
    [blocks |-> SetBlock(blocks, name, data), err |-> NoError]

\* PackFile::CreateRawBlock
CreateRawBlock(blocks, name, data, filename) ==
    IF HasBlock(blocks, name)
    THEN [blocks |-> blocks,
          err |-> Fail("Pack file already has a block", name, filename)]
    ELSE [blocks |-> SetBlock(blocks, name, data), err |-> NoError]

\* the sum of the sizes of the first k meshes
RECURSIVE MeshBytesBefore(_, _)
MeshBytesBefore(meshes, k) ==
    IF k = 0 THEN 0 ELSE MeshBytesBefore(meshes, k - 1) + Len(meshes[k])

RECURSIVE Concat(_)
Concat(seqs) == IF seqs = <<>> THEN <<>> ELSE Head(seqs) \o Concat(Tail(seqs))

\* the contents CreateMeshBlock would build were the offsets counted from the
\* end of the offset table: a faulty variant
MeshBlockContentsRelative(meshes) ==
    k_BlockMagic \o LE32(Len(meshes))
        \o Concat([i \in 1..Len(meshes) |-> LE32(MeshBytesBefore(meshes, i - 1))])
        \o Concat(meshes)

\* the contents CreateMeshBlock builds: magic, count, offset table, meshes
MeshBlockContents(meshes) ==
    LET meshCount == Len(meshes)
        tableEnd == Len(k_BlockMagic) + SizeofU32 + SizeofU32 * meshCount
    IN  k_BlockMagic \o LE32(meshCount)
            \o Concat([i \in 1..meshCount |->
                          LE32(tableEnd + MeshBytesBefore(meshes, i - 1))])
            \o Concat(meshes)

\* PackFile::CreateMeshBlock
CreateMeshBlock(blocks, meshes, filename) ==
    IF HasBlock(blocks, NameMESHES)
    THEN [blocks |-> blocks,
          err |-> Fail("Mesh pack already has a MESHES block", <<>>, filename)]
    ELSE [blocks |-> SetBlock(blocks, NameMESHES, MeshBlockContents(meshes)),
          err |-> NoError]

\* _infoBlockLookup as it lies in memory: 8 bytes an entry
InfoLookupBytes(table) ==
    Concat([i \in 1..Len(table) |->
               LE32(table[i].blockId) \o LE32(table[i].unknown)])

\* PackFile::CreateInfoBlock
CreateInfoBlock(blocks, infoBlockLookup, filename) ==
    IF HasBlock(blocks, NameINFO)
    THEN [blocks |-> blocks,
          err |-> Fail("Mesh pack already has an INFO block", <<>>, filename)]
    ELSE [blocks |-> SetBlock(blocks, NameINFO,
                              LE32(Len(infoBlockLookup))
                                  \o InfoLookupBytes(infoBlockLookup)),
          err |-> NoError]

\* PackFile::CreateBodyBlock
CreateBodyBlock(blocks, filename) ==
    IF HasBlock(blocks, NameBody)
    THEN [blocks |-> blocks,
          err |-> Fail("Pack already has an Body block", <<>>, filename)]
    ELSE [blocks |-> SetBlock(blocks, NameBody, <<>>), err |-> NoError]

-----------------------------------------------------------------------------
(* Loading: the object under construction *)

(* A load works on a record o of the instance's fields plus err (the        *)
(* exception in flight), crashed (undefined behaviour ended the process)    *)
(* and stages (the member functions entered so far).  u is what the build   *)
(* makes of this run's undefined behaviour: every 4-byte word of            *)
(* uninitialized memory holds u.fill, and a read through a get pointer      *)
(* beyond the end of a membuf either crashes or finds nothing (u.wild).     *)
(* What the machine makes of a request for 2 GiB or more is u.alloc.        *)

UninitMemory(n, u) == [i \in 1..n |-> IF i % 4 = 1 THEN u.fill ELSE 0]

\* the uninitialized std::array<char, 4> magic of ResolveBodyBlock and
\* ResolveMeshBlock: it can hold anything, also the "MKJC" an earlier call
\* compared in the same stack slot (u.residue)
UninitMagic(u) ==
    IF u.residue = "MKJC" THEN k_BlockMagic
    ELSE UninitMemory(Len(k_BlockMagic), u)

Ok(o) == o.err = NoError /\ ~o.crashed

Enter(o, stage) == [o EXCEPT !.stages = Append(@, stage)]

Throw(o, e) == [o EXCEPT !.err = e]

\* an exception of the standard library: its message has no file name
StdError(what) == [what |-> what, arg |-> <<>>, filename |-> ""]

\* a std::vector<uint8_t> of 2 GiB or more, too long to write out: the 4
\* bytes of its size() and the bytes at its front, every later byte being 0
HugeVector(size, front) == [size |-> size, front |-> front]

\* std::vector<uint8_t>::resize(n) on a vector holding old
VecResize(old, n) ==
    IF n <= Len(old) THEN SubSeq(old, 1, n) ELSE old \o Zeros(n - Len(old))

\* std::vector<T>::resize(n) on a vector of elements: new ones are empty
VecResizeOf(old, n, empty) ==
    IF n <= Len(old) THEN SubSeq(old, 1, n)
    ELSE old \o [j \in 1..(n - Len(old)) |-> empty]

\* the 8-byte lookup entries that memory holds, as pairs of uint32_t
U32Pairs(mem) ==
    [i \in 1..(Len(mem) \div 8) |->
        <<U32(SubSeq(mem, 8 * i - 7, 8 * i - 4)),
          U32(SubSeq(mem, 8 * i - 3, 8 * i))>>]

InfoLookup(mem) ==
    LET p == U32Pairs(mem)
    IN  [i \in 1..Len(p) |-> [blockId |-> p[i][1], unknown |-> p[i][2]]]

BodyLookup(mem) ==
    LET p == U32Pairs(mem)
    IN  [i \in 1..Len(p) |-> [offset |-> p[i][1], unknown |-> p[i][2]]]

BodyLookupBytes(table) ==
    Concat([i \in 1..Len(table) |->
               LE32(table[i].offset) \o LE32(table[i].unknown)])

\* PackFile::ResolveInfoBlock
ResolveInfoBlock(o, u) ==
    IF ~HasBlock(o.blocks, NameINFO)
    THEN Throw(o, Fail("no INFO block in mesh pack", <<>>, o.filename))
    ELSE LET data == GetBlock(o.blocks, NameINFO)
             r1 == StreamRead(IStream(data), SizeofU32)
             totalTextures == U32(ReadInto(UninitMemory(SizeofU32, u), r1.got))
             mem == VecResize(InfoLookupBytes(o.info), 8 * totalTextures)
             r2 == StreamRead(r1.s, 8 * totalTextures)
         IN  [o EXCEPT !.info = InfoLookup(ReadInto(mem, r2.got))]

\* PackFile::ResolveBodyBlock
ResolveBodyBlock(o, u) ==
    IF ~HasBlock(o.blocks, NameBody)
    THEN Throw(o, Fail("no Body block in anim pack", <<>>, o.filename))
    ELSE LET data == GetBlock(o.blocks, NameBody)
             r0 == StreamRead(IStream(data), Len(k_BlockMagic))
             magic == ReadInto(UninitMagic(u), r0.got)
             r1 == StreamRead(r0.s, SizeofU32)
             totalAnimations ==
                 U32(ReadInto(UninitMemory(SizeofU32, u), r1.got))
             mem == VecResize(BodyLookupBytes(o.body), 8 * totalAnimations)
             r2 == StreamRead(r1.s, 8 * totalAnimations)
         IN  IF magic # k_BlockMagic
             THEN Throw(o, Fail("Unrecognized Body Block header", <<>>,
                                o.filename))
             ELSE [o EXCEPT !.body = BodyLookup(ReadInto(mem, r2.got))]

\* sizeof(AudioBankSampleEntry)
SizeofAudioSample == 640

\* AudioBankSampleEntry::size and ::offset, the 4 bytes each
SampleSizeBytes(sample) == SubSeq(sample, 269, 272)
SampleOffsetBytes(sample) == SubSeq(sample, 273, 276)

\* ResolveAudioBankSampleTableBlock were it to compare the block's size
\* before it looks at the count: a faulty variant
ResolveAudioSizeFirst(o) ==
    IF ~HasBlock(o.blocks, NameAudioTable)
    THEN Throw(o, Fail("no LHAudioBankSampleTable block in sad pack", <<>>,
                       o.filename))
    ELSE
    LET data == GetBlock(o.blocks, NameAudioTable)
        fsize == Len(data)
    IN  IF fsize < SizeofU32
        THEN Throw(o, Fail("Audio bank block cannot fit sample count", <<>>,
                           o.filename))
        ELSE
        LET sampleCount == data[1] + 256 * data[2]
            resized == VecResizeOf(o.audio, sampleCount,
                                   Zeros(SizeofAudioSample))
        IN  IF fsize # SizeofU32 + sampleCount * SizeofAudioSample
            THEN Throw([o EXCEPT !.audio = resized],
                       Fail("Cannot fit all sample headers", <<>>, o.filename))
            ELSE IF sampleCount = 0
            THEN Throw(o, Fail("There are no sound entries", <<>>, o.filename))
            ELSE [o EXCEPT !.audio =
                     [i \in 1..sampleCount |->
                         SubSeq(data, SizeofU32 + SizeofAudioSample * (i - 1) + 1,
                                SizeofU32 + SizeofAudioSample * i)]]

\* PackFile::ResolveAudioBankSampleTableBlock
ResolveAudioBankSampleTableBlock(o) ==
    IF ~HasBlock(o.blocks, NameAudioTable)
    THEN Throw(o, Fail("no LHAudioBankSampleTable block in sad pack", <<>>,
                       o.filename))
    ELSE
    LET data == GetBlock(o.blocks, NameAudioTable)
        fsize == Len(data)
    IN  IF fsize < SizeofU32
        THEN Throw(o, Fail("Audio bank block cannot fit sample count", <<>>,
                           o.filename))
        ELSE
        LET sampleCount == data[1] + 256 * data[2]
            resized == VecResizeOf(o.audio, sampleCount,
                                   Zeros(SizeofAudioSample))
        IN  IF sampleCount = 0
            THEN Throw(o, Fail("There are no sound entries", <<>>, o.filename))
            ELSE IF fsize # SizeofU32 + sampleCount * SizeofAudioSample
            THEN Throw([o EXCEPT !.audio = resized],
                       Fail("Cannot fit all sample headers", <<>>, o.filename))
            ELSE [o EXCEPT !.audio =
                     [i \in 1..sampleCount |->
                         SubSeq(data, SizeofU32 + SizeofAudioSample * (i - 1) + 1,
                                SizeofU32 + SizeofAudioSample * i)]]

\* the two 16-bit halves of the uint32_t that 4 bytes hold
U32Lo(b) == b[1] + 256 * b[2]
U32Hi(b) == b[3] + 256 * b[4]

\* a > n for the uint32_t in the 4 bytes a and a number n < 2^31
U32Exceeds(a, n) ==
    \/ U32Hi(a) > n \div 65536
    \/ U32Hi(a) = n \div 65536 /\ U32Lo(a) > n % 65536

\* the 4 bytes of the uint32_t sum a + b, which wraps at 2^32
U32Add(a, b) ==
    LET lo == U32Lo(a) + U32Lo(b)
        hi == (U32Hi(a) + U32Hi(b) + lo \div 65536) % 65536
    IN  <<lo % 256, (lo \div 256) % 256, hi % 256, hi \div 256>>

\* the loop of ExtractSoundsFromBlock from header i on
RECURSIVE ExtractSoundsLoop(_, _, _, _, _)
ExtractSoundsLoop(o, data, s, i, u) ==
    IF i > Len(o.audio) THEN o
    ELSE
    LET offset == SampleOffsetBytes(o.audio[i])
        size == SampleSizeBytes(o.audio[i])
    IN  IF U32Exceeds(offset, Len(data))
        THEN Throw(o, Fail("Sound sample offset points to beyond file", <<>>,
                           o.filename))
        ELSE IF U32Exceeds(U32Add(offset, size), Len(data))
        THEN Throw(o, Fail("Sound sample size exceeds LHAudioWaveData size",
                           <<>>, o.filename))
        ELSE IF U32Hi(size) >= 32768
        \* a sample of 2 GiB or more, let through by the wrapped sum: the
        \* vector cannot be allocated, or it is and the read ends at the end
        \* of data
        THEN IF u.alloc = "bad_alloc"
             THEN Throw(o, StdError("std::bad_alloc"))
             ELSE
             LET s1 == IF s.fail THEN s ELSE [s EXCEPT !.pos = U32(offset)]
                 r == StreamRead(s1, Len(data) + 1)
             IN  ExtractSoundsLoop(
                     [o EXCEPT !.sounds[i] = HugeVector(size, r.got)], data,
                     r.s, i + 1, u)
        ELSE
        LET s1 == IF s.fail THEN s ELSE [s EXCEPT !.pos = U32(offset)]
            r == StreamRead(s1, U32(size))
            sample == ReadInto(VecResize(o.sounds[i], U32(size)), r.got)
        IN  ExtractSoundsLoop([o EXCEPT !.sounds[i] = sample], data, r.s,
                              i + 1, u)

\* ExtractSoundsFromBlock were it to decode nothing when LHAudioWaveData is
\* absent: a faulty variant
ExtractSoundsOptional(o, u) ==
    IF ~HasBlock(o.blocks, NameWaveData) THEN o
    ELSE LET data == GetBlock(o.blocks, NameWaveData)
         IN  ExtractSoundsLoop(
                 [o EXCEPT !.sounds = VecResizeOf(@, Len(o.audio), <<>>)],
                 data, IStream(data), 1, u)

\* PackFile::ExtractSoundsFromBlock
ExtractSoundsFromBlock(o, u) ==
    IF ~HasBlock(o.blocks, NameWaveData)
    THEN Throw(o, Fail("No LHAudioWaveData block in sad pack", <<>>,
                       o.filename))
    ELSE LET data == GetBlock(o.blocks, NameWaveData)
         IN  ExtractSoundsLoop(
                 [o EXCEPT !.sounds = VecResizeOf(@, Len(o.audio), <<>>)],
                 data, IStream(data), 1, u)

\* printf("%X"), which writes the digits above 9 as capitals: a faulty
\* variant of the block key
RECURSIVE HexUpper(_)
HexUpper(n) ==
    IF n < 16 THEN <<IF n < 10 THEN 48 + n ELSE 55 + n>>
    ELSE HexUpper(n \div 16) \o <<IF n % 16 < 10 THEN 48 + (n % 16)
                                  ELSE 55 + (n % 16)>>

\* printf("%x") and printf("%d") of a number, as ASCII
HexDigit(d) == IF d < 10 THEN 48 + d ELSE 87 + d
RECURSIVE Hex(_)
Hex(n) == IF n < 16 THEN <<HexDigit(n)>>
          ELSE Hex(n \div 16) \o <<HexDigit(n % 16)>>
RECURSIVE Dec(_)
Dec(n) == IF n < 10 THEN <<48 + n>> ELSE Dec(n \div 10) \o <<48 + (n % 10)>>

\* "Julien"
NameJulien == <<74, 117, 108, 105, 101, 110>>

\* sizeof(G3DTextureHeader): size, id, type, ddsSize
SizeofTextureHeader == 16
\* sizeof(DdsHeader) and sizeof(DdsPixelFormat)
SizeofDdsHeader == 124
SizeofDdsPixelFormat == 32

\* the fields of a DdsHeader the extractor reads, from its 124 bytes
DdsSize(h) == U32(SubSeq(h, 1, 4))
DdsHeight(h) == U32(SubSeq(h, 9, 12))
DdsWidth(h) == U32(SubSeq(h, 13, 16))
DdsPitchOrLinearSize(h) == U32(SubSeq(h, 17, 20))
DdsFormatSize(h) == U32(SubSeq(h, 73, 76))
DdsFourCC(h) == SubSeq(h, 81, 84)
DdsWithPitch(h, pitch) ==
    SubSeq(h, 1, 16) \o LE32(pitch) \o SubSeq(h, 21, Len(h))

\* "DXT1", "BC1" and "BC4" as std::string literals
FourCCDXT1 == <<68, 88, 84, 49>>
FourCCBC1 == <<66, 67, 49>>
FourCCBC4 == <<66, 67, 52>>

\* the block size the extractor picks: format is the std::string made of all
\* 4 bytes of fourCC, NULs included
DdsBlockSize(fourCC) ==
    IF fourCC = FourCCDXT1 \/ fourCC = FourCCBC1 \/ fourCC = FourCCBC4
    THEN 8 ELSE 16

HasTexture(textures, name) ==
    \E i \in 1..Len(textures) : textures[i].name = name

\* pitchOrLinearSize as the extractor leaves it
DdsPitch(ddsHeader) ==
    IF DdsPitchOrLinearSize(ddsHeader) # 0
    THEN DdsPitchOrLinearSize(ddsHeader)
    ELSE ((DdsWidth(ddsHeader) + 3) \div 4)
             * ((DdsHeight(ddsHeader) + 3) \div 4)
             * DdsBlockSize(DdsFourCC(ddsHeader))

\* _textures[blockName] = {header, ddsHeader, dssTexels}
SetTexture(textures, blockName, hdr, ddsHeader, dssTexels) ==
    Append(textures, [name |-> blockName, header |-> hdr,
                      ddsHeader |-> ddsHeader, texels |-> dssTexels])

(* One pass of the loop of ExtractTexturesFromBlock, in the order of the    *)
(* code: the block is looked up, header and dds are read (ExtractTexture),  *)
(* id and key are checked and the DdsHeader is read (ExtractTextureDds),    *)
(* its sizes are checked and the texels are read (ExtractTextureTexels).    *)
(* header is the G3DTextureHeader declared outside the loop.                *)
RECURSIVE ExtractTexturesLoop(_, _, _, _)

ExtractTextureTexels(o, i, hdr, ddsHeader, s, u) ==
    IF DdsSize(ddsHeader) # SizeofDdsHeader
           \/ DdsFormatSize(ddsHeader) # SizeofDdsPixelFormat
    THEN Throw(o, Fail("Invalid DDS header sizes", <<>>, o.filename))
    ELSE ExtractTexturesLoop(
             [o EXCEPT !.textures =
                 SetTexture(@, Hex(o.info[i].blockId), hdr,
                            DdsWithPitch(ddsHeader, DdsPitch(ddsHeader)),
                            ReadInto(Zeros(DdsPitch(ddsHeader)),
                                     StreamRead(s, DdsPitch(ddsHeader)).got))],
             i + 1, hdr, u)

\* the checks of the loop without the one for a key extracted before: a
\* faulty variant
ExtractTextureDdsReplacing(o, i, hdr, ddsStream, u) ==
    IF U32(SubSeq(hdr, 5, 8)) # o.info[i].blockId
    THEN Throw(o, Fail("Texture block id is not the same as block id", <<>>,
                       o.filename))
    ELSE ExtractTextureTexels(
             o, i, hdr,
             ReadInto(UninitMemory(SizeofDdsHeader, u), ddsStream.got),
             ddsStream.s, u)

ExtractTextureDds(o, i, hdr, ddsStream, u) ==
    IF U32(SubSeq(hdr, 5, 8)) # o.info[i].blockId
    THEN Throw(o, Fail("Texture block id is not the same as block id", <<>>,
                       o.filename))
    ELSE IF HasTexture(o.textures, Hex(o.info[i].blockId))
    THEN Throw(o, Fail("Duplicate texture extracted", <<>>, o.filename))
    ELSE ExtractTextureTexels(
             o, i, hdr,
             ReadInto(UninitMemory(SizeofDdsHeader, u), ddsStream.got),
             ddsStream.s, u)

ExtractTexture(o, i, hdr, s, u) ==
    \* std::vector<uint8_t> dds(header.size), read from the block's stream
    ExtractTextureDds(
        o, i, hdr,
        StreamRead(IStream(ReadInto(Zeros(U32(SubSeq(hdr, 1, 4))),
                                    StreamRead(s, U32(SubSeq(hdr, 1, 4))).got)),
                   SizeofDdsHeader),
        u)

ExtractTextureHeader(o, i, header, r, u) ==
    ExtractTexture(o, i, ReadInto(header, r.got), r.s, u)

ExtractTexturesLoop(o, i, header, u) ==
    IF i > Len(o.info) THEN o
    ELSE IF ~HasBlock(o.blocks, Hex(o.info[i].blockId))
    THEN Throw(o, Fail("Required texture block missing",
                       Hex(o.info[i].blockId), o.filename))
    ELSE ExtractTextureHeader(
             o, i, header,
             StreamRead(IStream(GetBlock(o.blocks, Hex(o.info[i].blockId))),
                        SizeofTextureHeader),
             u)

\* PackFile::ExtractTexturesFromBlock
ExtractTexturesFromBlock(o, u) ==
    ExtractTexturesLoop(o, 1, UninitMemory(SizeofTextureHeader, u), u)

\* animationHeaderSize
AnimationHeaderSize == 84

\* the loop of ExtractAnimationsFromBlock from lookup entry i on (entry i is
\* the code's index i - 1); s is the one stream over the Body block
RECURSIVE ExtractAnimationsLoop(_, _, _, _, _)
ExtractAnimationsLoop(o, data, s, i, u) ==
    IF i > Len(o.body) THEN o
    ELSE
    LET blockName == NameJulien \o Dec(i - 1)
    IN  IF ~HasBlock(o.blocks, blockName)
        THEN Throw(o, Fail("Required texture block missing", blockName,
                           o.filename))
        ELSE
        LET animationData == GetBlock(o.blocks, blockName)
            offset == o.body[i].offset
            wild == ~s.fail /\ offset > Len(data)
            \* seekg does nothing on a failed stream; membuf::seekoff checks no
            \* range, and reading from beyond the end is undefined
            s1 == IF s.fail THEN s
                  ELSE IF wild THEN [s EXCEPT !.pos = Len(data)]
                  ELSE [s EXCEPT !.pos = offset]
            r == StreamRead(s1, AnimationHeaderSize)
            old == VecResize(o.anims[i], AnimationHeaderSize)
        IN  IF wild /\ u.wild = "crash"
            THEN [o EXCEPT !.crashed = TRUE]
            ELSE ExtractAnimationsLoop(
                     [o EXCEPT !.anims[i] = ReadInto(old, r.got)
                                                \o animationData],
                     data, r.s, i + 1, u)

\* PackFile::ExtractAnimationsFromBlock
ExtractAnimationsFromBlock(o, u) ==
    LET data == GetBlock(o.blocks, NameBody)
    IN  ExtractAnimationsLoop(
            [o EXCEPT !.anims = VecResizeOf(@, Len(o.body), <<>>)],
            data, IStream(data), 1, u)

\* the loop of ResolveMeshBlock were the last mesh to end where the bytes
\* after the offset table end when counted from offset 0: a faulty variant
RECURSIVE ResolveMeshLoopRelative(_, _, _, _, _)
ResolveMeshLoopRelative(o, data, s, meshOffsets, i) ==
    IF i > Len(o.meshes) THEN o
    ELSE
    LET size == (IF i = Len(o.meshes)
                 THEN Len(data) - Len(k_BlockMagic) - SizeofU32
                 ELSE meshOffsets[i + 1])
                    - meshOffsets[i]
        r == StreamRead(s, size)
    IN  IF size < 0
        THEN Throw(o, StdError("std::length_error"))
        ELSE ResolveMeshLoopRelative(
                 [o EXCEPT !.meshes[i] = ReadInto(VecResize(@, size), r.got)],
                 data, r.s, meshOffsets, i + 1)

\* the loop of ResolveMeshBlock from mesh i on; the size is computed in
\* std::size_t, and a difference below zero wraps to more than
\* std::vector::max_size()
RECURSIVE ResolveMeshLoop(_, _, _, _, _)
ResolveMeshLoop(o, data, s, meshOffsets, i) ==
    IF i > Len(o.meshes) THEN o
    ELSE
    LET size == (IF i = Len(o.meshes) THEN Len(data) ELSE meshOffsets[i + 1])
                    - meshOffsets[i]
        r == StreamRead(s, size)
    IN  IF size < 0
        THEN Throw(o, StdError("std::length_error"))
        ELSE ResolveMeshLoop(
                 [o EXCEPT !.meshes[i] = ReadInto(VecResize(@, size), r.got)],
                 data, r.s, meshOffsets, i + 1)

\* PackFile::ResolveMeshBlock
ResolveMeshBlock(o, u) ==
    IF ~HasBlock(o.blocks, NameMESHES)
    THEN Throw(o, Fail("no MESHES block in mesh pack", <<>>, o.filename))
    ELSE
    LET data == GetBlock(o.blocks, NameMESHES)
        r0 == StreamRead(IStream(data), Len(k_BlockMagic))
        magic == ReadInto(UninitMagic(u), r0.got)
        r1 == StreamRead(r0.s, SizeofU32)
        meshCount == U32(ReadInto(UninitMemory(SizeofU32, u), r1.got))
        r2 == StreamRead(r1.s, SizeofU32 * meshCount)
        mem == ReadInto(Zeros(SizeofU32 * meshCount), r2.got)
        meshOffsets == [i \in 1..meshCount |->
                           U32(SubSeq(mem, 4 * i - 3, 4 * i))]
    IN  IF magic # k_BlockMagic
        THEN Throw(o, Fail("Unrecognized Mesh Block header", <<>>, o.filename))
        ELSE ResolveMeshLoop(
                 [o EXCEPT !.meshes = VecResizeOf(@, meshCount, <<>>)],
                 data, r2.s, meshOffsets, 1)

\* a stage of ReadFile: entered unless an exception is in flight
ReadBlocksStage(o, rb) ==
    [Enter(o, "ReadBlocks") EXCEPT !.blocks = rb.blocks, !.err = rb.err]

ExtractTexturesStage(o, u) ==
    IF Ok(o) THEN ExtractTexturesFromBlock(
                      Enter(o, "ExtractTexturesFromBlock"), u)
    ELSE o

ResolveMeshStage(o, u) ==
    IF Ok(o) THEN ResolveMeshBlock(Enter(o, "ResolveMeshBlock"), u) ELSE o

ExtractAnimationsStage(o, u) ==
    IF Ok(o) THEN ExtractAnimationsFromBlock(
                      Enter(o, "ExtractAnimationsFromBlock"), u)
    ELSE o

ExtractSoundsStage(o, u) ==
    IF Ok(o) THEN ExtractSoundsFromBlock(Enter(o, "ExtractSoundsFromBlock"), u)
    ELSE o

\* the mesh pack stages were they to run on the presence of MESHES instead
\* of INFO: a faulty variant
MeshPackByMeshes(o, u) ==
    IF Ok(o) /\ HasBlock(o.blocks, NameMESHES)
    THEN ResolveMeshStage(
             ExtractTexturesStage(
                 ResolveInfoBlock(Enter(o, "ResolveInfoBlock"), u), u), u)
    ELSE o

\* if (HasBlock("INFO")) { ... }
MeshPack(o, u) ==
    IF Ok(o) /\ HasBlock(o.blocks, NameINFO)
    THEN ResolveMeshStage(
             ExtractTexturesStage(
                 ResolveInfoBlock(Enter(o, "ResolveInfoBlock"), u), u), u)
    ELSE o

\* if (HasBlock("Body")) { ... }
AnimPack(o, u) ==
    IF Ok(o) /\ HasBlock(o.blocks, NameBody)
    THEN ExtractAnimationsStage(
             ResolveBodyBlock(Enter(o, "ResolveBodyBlock"), u), u)
    ELSE o

\* if (HasBlock("LHAudioBankSampleTable")) { ... }
SoundPack(o, u) ==
    IF Ok(o) /\ HasBlock(o.blocks, NameAudioTable)
    THEN ExtractSoundsStage(
             ResolveAudioBankSampleTableBlock(
                 Enter(o, "ResolveAudioBankSampleTableBlock")), u)
    ELSE o

\* _isLoaded = true
MarkLoaded(o) == IF Ok(o) THEN [o EXCEPT !.isLoaded = TRUE] ELSE o

\* PackFile::ReadFile on a stream holding bytes
ReadFile(o, bytes, u) ==
    MarkLoaded(
        SoundPack(
            AnimPack(
                MeshPack(
                    ReadBlocksStage(o, ReadBlocks(o.blocks, bytes, o.filename)),
                    u),
                u),
            u))

-----------------------------------------------------------------------------
(* The instance and its operations *)

\* the fields of the instance as the record a load works on
Instance ==
    [filename |-> _filename, isLoaded |-> _isLoaded, blocks |-> _blocks,
     info |-> _infoBlockLookup, body |-> _bodyBlockLookup,
     audio |-> _audioSampleHeaders, textures |-> _textures,
     meshes |-> _meshes, anims |-> _animations, sounds |-> _audioSampleData,
     err |-> NoError, crashed |-> FALSE, stages |-> <<>>]

\* the instance after a load ended in o
Store(o) ==
    /\ _filename' = o.filename
    /\ _isLoaded' = o.isLoaded
    /\ _blocks' = o.blocks
    /\ _infoBlockLookup' = o.info
    /\ _bodyBlockLookup' = o.body
    /\ _audioSampleHeaders' = o.audio
    /\ _textures' = o.textures
    /\ _meshes' = o.meshes
    /\ _animations' = o.anims
    /\ _audioSampleData' = o.sounds
    /\ error' = o.err
    /\ stagesRun' = o.stages
    /\ aborted' = o.crashed

fields == <<_filename, _isLoaded, _blocks, _infoBlockLookup, _bodyBlockLookup,
            _audioSampleHeaders, _textures, _meshes, _animations,
            _audioSampleData>>

collections == <<_infoBlockLookup, _bodyBlockLookup, _audioSampleHeaders,
                 _textures, _meshes, _animations, _audioSampleData>>

\* the file system: one file can exist, at PackPath; nothing can be opened
\* at BadPath
PackPath == "a.pack"
BadPath == "nodir/a.pack"
NoFile == [exists |-> FALSE, bytes |-> <<>>]

\* assert(!_isLoaded) fails: abort(), nothing else happens
AssertFails(op, input) ==
    /\ aborted' = TRUE
    /\ call' = [op |-> op, input |-> input]
    /\ error' = NoError
    /\ stagesRun' = <<>>
    /\ UNCHANGED <<disk, assertsEnabled, authored, hasWritten>>

\* PackFile::PackFile(): a new instance replaces the one at hand
NewCall ==
    /\ ~aborted
    /\ _filename' = ""
    /\ _isLoaded' = FALSE
    /\ _blocks' = <<>>
    /\ _infoBlockLookup' = <<>>
    /\ _bodyBlockLookup' = <<>>
    /\ _audioSampleHeaders' = <<>>
    /\ _textures' = <<>>
    /\ _meshes' = <<>>
    /\ _animations' = <<>>
    /\ _audioSampleData' = <<>>
    /\ call' = [op |-> "PackFile", input |-> <<>>]
    /\ error' = NoError
    /\ stagesRun' = <<>>
    /\ hasWritten' = FALSE
    /\ UNCHANGED <<disk, assertsEnabled, aborted, authored>>

\* what a block synthesis call leaves: r is [blocks, err]
Synthesized(op, input, r) ==
    /\ ~aborted
    /\ _blocks' = r.blocks
    /\ error' = r.err
    /\ call' = [op |-> op, input |-> input]
    /\ stagesRun' = <<>>
    /\ UNCHANGED <<_filename, _isLoaded, collections, disk, assertsEnabled,
                   aborted, authored, hasWritten>>

CreateRawBlockCall(name, data) ==
    Synthesized("CreateRawBlock", <<name, data>>,
                CreateRawBlock(_blocks, name, data, _filename))

CreateMeshBlockCall ==
    Synthesized("CreateMeshBlock", <<>>,
                CreateMeshBlock(_blocks, _meshes, _filename))

CreateInfoBlockCall ==
    Synthesized("CreateInfoBlock", <<>>,
                CreateInfoBlock(_blocks, _infoBlockLookup, _filename))

CreateBodyBlockCall ==
    Synthesized("CreateBodyBlock", <<>>, CreateBodyBlock(_blocks, _filename))

\* PackFile::InsertMesh
InsertMeshCall(data) ==
    /\ ~aborted
    /\ _meshes' = Append(_meshes, data)
    /\ call' = [op |-> "InsertMesh", input |-> data]
    /\ error' = NoError
    /\ stagesRun' = <<>>
    /\ UNCHANGED <<_filename, _isLoaded, _blocks, _infoBlockLookup,
                   _bodyBlockLookup, _audioSampleHeaders, _textures,
                   _animations, _audioSampleData, disk, assertsEnabled,
                   aborted, authored, hasWritten>>

\* PackFile::Write(file); uninit is the header WriteBlocks starts with
WriteCall(file, uninit) ==
    /\ ~aborted
    /\ IF assertsEnabled /\ _isLoaded
       THEN AssertFails("Write", file) /\ UNCHANGED fields
       ELSE /\ _filename' = file
            /\ call' = [op |-> "Write", input |-> file]
            /\ stagesRun' = <<>>
            /\ IF file = BadPath
               THEN /\ error' = Fail("Could not open file.", <<>>, file)
                    /\ UNCHANGED <<disk, authored, hasWritten>>
               ELSE /\ error' = NoError
                    /\ disk' = [exists |-> TRUE,
                                bytes |-> WriteBlocks(_blocks, uninit)]
                    /\ authored' = _blocks
                    /\ hasWritten' = TRUE
            /\ UNCHANGED <<_isLoaded, _blocks, collections, assertsEnabled,
                           aborted>>

\* PackFile::Open(const std::filesystem::path&)
OpenFileCall(file, u) ==
    /\ ~aborted
    /\ call' = [op |-> "Open", input |-> file]
    /\ UNCHANGED <<disk, assertsEnabled, authored, hasWritten>>
    /\ IF file = BadPath \/ ~disk.exists
       THEN /\ _filename' = file
            /\ error' = Fail("Could not open file.", <<>>, file)
            /\ stagesRun' = <<>>
            /\ UNCHANGED <<_isLoaded, _blocks, collections, aborted>>
       ELSE IF assertsEnabled /\ _isLoaded
       \* the assert of ReadBlocks
       THEN /\ _filename' = file
            /\ aborted' = TRUE
            /\ error' = NoError
            /\ stagesRun' = <<>>
            /\ UNCHANGED <<_isLoaded, _blocks, collections>>
       ELSE Store(ReadFile([Instance EXCEPT !.filename = file], disk.bytes, u))

\* PackFile::Open(const std::vector<uint8_t>&)
OpenBufferCall(buffer, u) ==
    /\ ~aborted
    /\ IF assertsEnabled /\ _isLoaded
       THEN AssertFails("Open", buffer) /\ UNCHANGED fields
       ELSE /\ call' = [op |-> "Open", input |-> buffer]
            /\ UNCHANGED <<disk, assertsEnabled, authored, hasWritten>>
            /\ Store(ReadFile([Instance EXCEPT !.filename = "buffer"],
                              buffer, u))

\* a PackFile just constructed, in either build, and no file
Init ==
    /\ _filename = ""
    /\ _isLoaded = FALSE
    /\ _blocks = <<>>
    /\ _infoBlockLookup = <<>>
    /\ _bodyBlockLookup = <<>>
    /\ _audioSampleHeaders = <<>>
    /\ _textures = <<>>
    /\ _meshes = <<>>
    /\ _animations = <<>>
    /\ _audioSampleData = <<>>
    /\ disk = NoFile
    /\ assertsEnabled \in BOOLEAN
    /\ aborted = FALSE
    /\ call = [op |-> "PackFile", input |-> <<>>]
    /\ error = NoError
    /\ stagesRun = <<>>
    /\ authored = <<>>
    /\ hasWritten = FALSE
    /\ nops = 0
    /\ reading = NotReading
    /\ _instance = <<>>
    /\ _handlers = <<>>
    /\ frames = <<>>
    /\ produced = <<>>
    /\ delivered = <<>>

-----------------------------------------------------------------------------
(* Inputs: containers laid out as the format comment of PackFile.cpp says *)

\* a block of an input stream: a name, the size its header declares, and the
\* payload bytes that follow the header
RawBlock(name, size, data) == [name |-> name, size |-> size, data |-> data]

\* a whole block: the header declares what follows
Whole(name, data) == RawBlock(name, Len(data), data)

\* the 32-byte name field, NUL-padded
NamePad(name) == name \o Zeros(k_BlockNameSize - Len(name))

BlockBytes(b) == NamePad(b.name) \o LE32(b.size) \o b.data

\* magic, blocks, and trailing bytes
Container(bs, trailer) ==
    k_Magic \o Concat([i \in 1..Len(bs) |-> BlockBytes(bs[i])]) \o trailer

\* all sequences of at most n elements of S
RECURSIVE SeqsUpTo(_, _)
SeqsUpTo(S, n) ==
    IF n = 0 THEN {<<>>}
    ELSE LET shorter == SeqsUpTo(S, n - 1)
         IN  shorter \cup {Append(q, x) : q \in {r \in shorter : Len(r) = n - 1},
                                         x \in S}

NameA == <<65>>
NameB == <<66>>

\* Bounds of the input sets
MaxInBlocks == 2
MaxCalls == 3
MaxBlocks == 2

\* the blocks of the framing inputs: whole blocks, empty or not
FramingBlocks == {Whole(n, d) : n \in {NameA, NameB}, d \in {<<>>, <<7>>}}

\* a last block that declares 3 bytes and carries one, or none
FramingCut == {RawBlock(n, 3, d) : n \in {NameA, NameB}, d \in {<<>>, <<7>>}}

FramingTrailers == {<<>>, <<0>>, Zeros(SizeofPackBlockHeader - 1)}

\* the framing inputs: whole blocks, at most one cut block after them,
\* trailing bytes; magic is FALSE for a stream whose first byte is not 'L'
FramingShapes ==
    [blocks : SeqsUpTo(FramingBlocks, MaxInBlocks),
     cut : SeqsUpTo(FramingCut, 1),
     trailer : FramingTrailers,
     magic : BOOLEAN]

FramingInput(sh) ==
    LET c == Container(sh.blocks \o sh.cut, sh.trailer)
    IN  IF sh.magic THEN c ELSE [c EXCEPT ![1] = 0]

\* a MESHES block: magic, count, the offset table, the mesh bytes
MeshesBlock(magic, offsets, bytes) ==
    magic \o LE32(Len(offsets))
        \o Concat([i \in 1..Len(offsets) |-> LE32(offsets[i])]) \o bytes

MeshPayload == [i \in 1..20 |-> 100 + i]

\* the MESHES block of the specification's end-to-end scenario
MeshesScenario == MeshesBlock(k_BlockMagic, <<8, 20>>, MeshPayload)

\* MESHES blocks with well-ordered offset tables
MeshesOrdered ==
    {MeshesBlock(k_BlockMagic, t, MeshPayload) :
        t \in {<<>>, <<12>>, <<16, 28>>, <<16, 16>>, <<8, 20>>, <<20, 36>>}}

MeshesBadMagic == MeshesBlock(<<77, 75, 74, 68>>, <<16, 28>>, MeshPayload)
MeshesDecreasing == MeshesBlock(k_BlockMagic, <<28, 16>>, MeshPayload)

\* offset tables that decrease after a first sound mesh, and that go beyond
\* the payload
MeshesMisordered ==
    {MeshesBlock(k_BlockMagic, t, MeshPayload) : t \in {<<20, 32, 24>>, <<16, 40>>}}

\* an INFO block
InfoBlock(table) == LE32(Len(table)) \o InfoLookupBytes(table)

\* a DdsHeader: sizes, dimensions, pitchOrLinearSize, fourCC
DdsHeaderBytes(width, height, pitch, fourCC) ==
    LE32(SizeofDdsHeader) \o LE32(0) \o LE32(height) \o LE32(width)
        \o LE32(pitch) \o Zeros(52) \o LE32(SizeofDdsPixelFormat) \o LE32(0)
        \o fourCC \o Zeros(40)

\* a texture block: the 16-byte header, then the dds bytes
TextureBlock(size, id, ddsSize, dds) ==
    LE32(size) \o LE32(id) \o LE32(0) \o LE32(ddsSize) \o dds

TextureDds == DdsHeaderBytes(4, 4, 8, FourCCDXT1) \o [i \in 1..8 |-> 40 + i]

\* texture 0x1a, and the same block carrying another id
Texture1a == TextureBlock(Len(TextureDds), 26, Len(TextureDds), TextureDds)
Texture1aBadId == TextureBlock(Len(TextureDds), 27, Len(TextureDds), TextureDds)
Info1a == InfoBlock(<<[blockId |-> 26, unknown |-> 0]>>)

\* a Body block: magic, the lookup table, then the animation headers
BodyBlock(magic, table, rest) ==
    magic \o LE32(Len(table)) \o BodyLookupBytes(table) \o rest

Body1 == BodyBlock(k_BlockMagic, <<[offset |-> 16, unknown |-> 0]>>,
                   [i \in 1..AnimationHeaderSize |-> 3])
BodyBadMagic == BodyBlock(<<77, 75, 74, 68>>, <<[offset |-> 16, unknown |-> 0]>>,
                          [i \in 1..AnimationHeaderSize |-> 3])
Julien0 == <<4, 4>>

\* an AudioBankSampleEntry with the given size and offset
SampleHeader(size, offset) ==
    Zeros(268) \o LE32(size) \o LE32(offset)
        \o Zeros(SizeofAudioSample - 276)

\* an AudioBankSampleEntry of size 2^32 - 1 and offset 1: their uint32_t sum
\* is 0
SampleHeaderWrapping ==
    Zeros(268) \o <<255, 255, 255, 255>> \o LE32(1)
        \o Zeros(SizeofAudioSample - 276)

\* an LHAudioBankSampleTable block declaring count samples
AudioTable(count, headers) == <<count % 256, count \div 256, 0, 0>> \o Concat(headers)

WaveData == <<1, 2, 3, 4>>

\* the ways the mesh pack, the anim pack and the sound pack of an input can
\* be: present and sound, absent, or broken
\* mesh packs whose INFO block declares one texture and holds no entry, with
\* and without a texture block named "0"
InfoTruncatedPacks ==
    {<<Whole(NameINFO, LE32(1)),
       Whole(NameMESHES, MeshesBlock(k_BlockMagic, <<16, 28>>, MeshPayload))>>,
     <<Whole(NameINFO, LE32(1)),
       Whole(Hex(0), TextureBlock(Len(TextureDds), 0, Len(TextureDds), TextureDds)),
       Whole(NameMESHES, MeshesBlock(k_BlockMagic, <<16, 28>>, MeshPayload))>>}

MeshPackVariants ==
    {<<>>, <<Whole(NameINFO, InfoBlock(<<>>))>>,
     <<Whole(NameINFO, Info1a), Whole(Hex(26), Texture1a),
       Whole(NameMESHES, MeshesBlock(k_BlockMagic, <<16, 28>>, MeshPayload))>>,
     <<Whole(NameINFO, Info1a),
       Whole(NameMESHES, MeshesBlock(k_BlockMagic, <<16, 28>>, MeshPayload))>>,
     <<Whole(NameINFO, Info1a), Whole(Hex(26), Texture1aBadId),
       Whole(NameMESHES, MeshesBlock(k_BlockMagic, <<16, 28>>, MeshPayload))>>,
     <<Whole(NameINFO, InfoBlock(<<>>)), Whole(NameMESHES, MeshesBadMagic)>>,
     <<Whole(NameINFO, InfoBlock(<<>>)),
       Whole(NameMESHES, SubSeq(k_BlockMagic, 1, 2))>>,
     <<Whole(NameINFO, InfoBlock(<<>>)), Whole(NameMESHES, MeshesDecreasing)>>}
    \cup {<<Whole(NameINFO, InfoBlock(<<>>)), Whole(NameMESHES, m)>> :
             m \in MeshesMisordered}
    \cup InfoTruncatedPacks
    \cup {<<Whole(NameMESHES, m)>> : m \in MeshesOrdered}
    \cup {<<Whole(NameINFO, InfoBlock(<<>>)), Whole(NameMESHES, m)>> :
             m \in MeshesOrdered}

AnimPackVariants ==
    {<<>>, <<Whole(NameBody, Body1), Whole(NameJulien \o Dec(0), Julien0)>>,
     <<Whole(NameBody, SubSeq(k_BlockMagic, 1, 2))>>,
     <<Whole(NameBody, Body1)>>,
     <<Whole(NameBody, BodyBadMagic), Whole(NameJulien \o Dec(0), Julien0)>>}

SoundPackVariants ==
    {<<>>,
     <<Whole(NameAudioTable, AudioTable(1, <<SampleHeader(3, 1)>>)),
       Whole(NameWaveData, WaveData)>>,
     <<Whole(NameAudioTable, AudioTable(1, <<SampleHeader(3, 1)>>))>>,
     <<Whole(NameAudioTable, AudioTable(0, <<>>)),
       Whole(NameWaveData, WaveData)>>,
     <<Whole(NameAudioTable, AudioTable(2, <<SampleHeader(3, 1)>>)),
       Whole(NameWaveData, WaveData)>>,
     <<Whole(NameAudioTable, AudioTable(0, <<SampleHeader(3, 1)>>)),
       Whole(NameWaveData, WaveData)>>,
     <<Whole(NameAudioTable, <<1, 0>>), Whole(NameWaveData, WaveData)>>,
     <<Whole(NameAudioTable, AudioTable(1, <<SampleHeaderWrapping>>)),
       Whole(NameWaveData, WaveData)>>,
     <<Whole(NameAudioTable, AudioTable(1, <<SampleHeader(3, 5)>>)),
       Whole(NameWaveData, WaveData)>>,
     <<Whole(NameAudioTable, AudioTable(1, <<SampleHeader(4, 1)>>)),
       Whole(NameWaveData, WaveData)>>}

\* a texture block of the given id whose size and ddsSize fields are the
\* length of its DdsHeader and 8 texel bytes
TextureOf(id, width, height, pitch, fourCC) ==
    TextureBlock(SizeofDdsHeader + 8, id, SizeofDdsHeader + 8,
                 DdsHeaderBytes(width, height, pitch, fourCC)
                     \o [i \in 1..8 |-> 40 + i])

\* a mesh pack: INFO with the given blockIds, the texture blocks, and a
\* MESHES block without meshes
TexturePack(ids, textures) ==
    <<Whole(NameINFO,
            InfoBlock([i \in 1..Len(ids) |->
                          [blockId |-> ids[i], unknown |-> 0]]))>>
        \o textures
        \o <<Whole(NameMESHES, MeshesBlock(k_BlockMagic, <<>>, <<>>))>>

\* mesh packs for the texture extractor: headers without pitchOrLinearSize
\* under several four-character codes and dimensions, several textures,
\* a blockId named twice, a block carrying another id or no header at all,
\* and blocks whose size and ddsSize fields differ
TexturePackVariants ==
    {TexturePack(<<26>>, <<Whole(Hex(26), TextureOf(26, d[1], d[2], 0, c))>>) :
        d \in {<<8, 8>>, <<5, 9>>},
        c \in {FourCCDXT1, FourCCBC1 \o <<0>>, FourCCBC4 \o <<0>>,
               <<68, 88, 84, 53>>}}
    \cup {TexturePack(<<171, 10>>,
                      <<Whole(Hex(10), TextureOf(10, 4, 4, 8, FourCCDXT1)),
                        Whole(Hex(171), TextureOf(171, 8, 8, 16, FourCCDXT1))>>),
          TexturePack(<<26, 26>>,
                      <<Whole(Hex(26), TextureOf(26, 4, 4, 8, FourCCDXT1))>>),
          TexturePack(<<26, 10>>,
                      <<Whole(Hex(26), TextureOf(26, 4, 4, 8, FourCCDXT1)),
                        Whole(Hex(10), TextureOf(11, 4, 4, 8, FourCCDXT1))>>),
          TexturePack(<<26, 10>>,
                      <<Whole(Hex(26), TextureOf(26, 4, 4, 8, FourCCDXT1)),
                        Whole(Hex(10), <<>>)>>)}
    \cup {TexturePack(<<26>>,
                      <<Whole(Hex(26),
                              TextureBlock(sz[1], 26, sz[2], TextureDds))>>) :
             sz \in {<<SizeofDdsHeader, SizeofDdsHeader + 8>>,
                     <<SizeofDdsHeader + 8, SizeofDdsHeader>>,
                     <<0, SizeofDdsHeader + 8>>}}

\* anim packs of two animations: a Body block of 192 bytes whose lookup
\* entries are in range, run over the end of the block, or lie beyond it
AnimPackPairs ==
    {<<Whole(NameBody,
             BodyBlock(k_BlockMagic,
                       <<[offset |-> t[1], unknown |-> 0],
                         [offset |-> t[2], unknown |-> 0]>>,
                       [i \in 1..(2 * AnimationHeaderSize) |-> i])),
       Whole(NameJulien \o Dec(0), Julien0),
       Whole(NameJulien \o Dec(1), <<5>>)>> :
        t \in {<<24, 108>>, <<108, 24>>, <<150, 24>>, <<24, 109>>,
               <<400, 24>>}}

\* the pack inputs: one variant of each pack kind, in the order mesh, anim,
\* sound, and the texture packs and the anim packs of two on their own
PackShapes ==
    (MeshPackVariants \X AnimPackVariants \X SoundPackVariants)
        \cup {<<m, <<>>, <<>>>> : m \in TexturePackVariants}
        \cup {<<<<>>, a, <<>>>> : a \in AnimPackPairs}

PackInput(sh) == Container(sh[1] \o sh[2] \o sh[3], <<>>)

\* streams too short to hold the magic
ShortStreams == {<<>>, SubSeq(k_Magic, 1, 4)}

\* what undefined behaviour can come to
Undefined ==
    [fill : {0, 1}, wild : {"crash", "eof"}, residue : {"fill", "MKJC"},
     alloc : {"ok", "bad_alloc"}]
UninitNames == {Zeros(k_BlockNameSize), [i \in 1..k_BlockNameSize |-> 204]}

\* names of 1, 31 and 32 bytes
RawNames == {NameA, [i \in 1..31 |-> 97], [i \in 1..32 |-> 98]}
RawPayloads == {<<>>, <<7>>}

-----------------------------------------------------------------------------
(* Specifications *)

\* Spec: any MaxCalls calls on one instance
\* a PackFile call is counted, and no other object takes a step with it
Counted ==
    nops < MaxCalls /\ nops' = nops + 1 /\ UNCHANGED <<reading, queueVars>>

LifecycleNames == {NameA, NameMESHES}
LifecycleMeshes == {<<>>, <<5, 6>>}
LifecycleBuffers ==
    {Container(<<Whole(NameA, <<7>>)>>, <<>>),
     Container(<<Whole(NameINFO, InfoBlock(<<>>)),
                 Whole(NameMESHES,
                       MeshesBlock(k_BlockMagic, <<16, 28>>, MeshPayload))>>,
               <<>>),
     [Container(<<Whole(NameA, <<7>>)>>, <<>>) EXCEPT ![1] = 0]}

Next ==
    \/ \E name \in LifecycleNames, data \in RawPayloads :
           Counted /\ CreateRawBlockCall(name, data)
    \/ Counted /\ CreateMeshBlockCall
    \/ Counted /\ CreateInfoBlockCall
    \/ Counted /\ CreateBodyBlockCall
    \/ \E data \in LifecycleMeshes : Counted /\ InsertMeshCall(data)
    \/ \E file \in {PackPath, BadPath}, uninit \in UninitNames :
           Counted /\ WriteCall(file, uninit)
    \/ \E u \in Undefined : Counted /\ OpenFileCall(PackPath, u)
    \/ \E buffer \in LifecycleBuffers, u \in Undefined :
           Counted /\ OpenBufferCall(buffer, u)

Spec == Init /\ [][Next]_vars

\* SpecRoundTrip: raw blocks are created and written once, then a new
\* instance opens the file
NextRoundTrip ==
    \/ \E name \in RawNames, data \in RawPayloads :
           /\ ~disk.exists
           /\ Len(_blocks) < MaxBlocks
           /\ CreateRawBlockCall(name, data)
           /\ UNCHANGED <<nops, reading, queueVars>>
    \/ \E uninit \in UninitNames :
           /\ ~disk.exists
           /\ WriteCall(PackPath, uninit)
           /\ UNCHANGED <<nops, reading, queueVars>>
    \/ /\ call.op = "Write"
       /\ NewCall
       /\ UNCHANGED <<nops, reading, queueVars>>
    \/ \E u \in Undefined :
           /\ disk.exists
           /\ call.op = "PackFile"
           /\ OpenFileCall(PackPath, u)
           /\ UNCHANGED <<nops, reading, queueVars>>

SpecRoundTrip == Init /\ [][NextRoundTrip]_vars

\* SpecLoad: a new instance opens one buffer
NextLoad ==
    \/ \E sh \in FramingShapes, u \in Undefined :
           /\ call.op = "PackFile"
           /\ OpenBufferCall(FramingInput(sh), u)
           /\ UNCHANGED <<nops, reading, queueVars>>
    \/ \E sh \in PackShapes, u \in Undefined :
           /\ call.op = "PackFile"
           /\ OpenBufferCall(PackInput(sh), u)
           /\ UNCHANGED <<nops, reading, queueVars>>
    \/ \E buffer \in ShortStreams, u \in Undefined :
           /\ call.op = "PackFile"
           /\ OpenBufferCall(buffer, u)
           /\ UNCHANGED <<nops, reading, queueVars>>

SpecLoad == Init /\ [][NextLoad]_vars

\* SpecReadBlocks: ReadBlocks runs on one stream, an iteration of its loop
\* a step; a running call keeps running
ReadBlocksBegin(bytes) ==
    /\ reading.pc = "idle"
    /\ reading' = ReadBlocksEnter(bytes, "buffer")
    /\ UNCHANGED <<fileVars, queueVars>>

ReadBlocksIterate ==
    /\ reading.pc = "loop"
    /\ ReadBlocksContinues(reading)
    /\ reading' = ReadBlocksIteration(reading, "buffer")
    /\ UNCHANGED <<fileVars, queueVars>>

ReadBlocksEnd ==
    /\ reading.pc = "loop"
    /\ ~ReadBlocksContinues(reading)
    /\ reading' = ReadBlocksLeave(reading, "buffer")
    /\ UNCHANGED <<fileVars, queueVars>>

NextReadBlocks ==
    \/ \E sh \in FramingShapes : ReadBlocksBegin(FramingInput(sh))
    \/ \E buffer \in ShortStreams : ReadBlocksBegin(buffer)
    \/ ReadBlocksIterate
    \/ ReadBlocksEnd

SpecReadBlocks ==
    Init /\ [][NextReadBlocks]_vars
        /\ WF_vars(ReadBlocksIterate) /\ WF_vars(ReadBlocksEnd)

-----------------------------------------------------------------------------
(* EventQueue<T>: handlers are registered, the program calls Produce, and   *)
(* Produce invokes the handlers one by one, a handler invocation being a    *)
(* step.  A handler is one of three kinds: "plain" only takes the event;    *)
(* "reentrant" calls Produce(EventB) on the same queue when it is given     *)
(* EventA by the outermost Produce; "throwing" throws when it is given      *)
(* EventBad.                                                                *)

EventA == "a"
EventB == "b"
EventBad == "bad"
Events == {EventA, EventB, EventBad}
HandlerKinds == {"plain", "reentrant", "throwing"}

\* Bounds of the event queue
MaxHandlers == 2
MaxProduce == 2

\* void AddHandler(EventHandler<T> handler), called while no Produce runs
AddHandler(handler) ==
    /\ frames = <<>>
    /\ Len(_handlers) < MaxHandlers
    /\ _handlers' = Append(_handlers, handler)
    /\ UNCHANGED <<_instance, frames, produced, delivered, fileVars, reading>>

\* _instance.push_back(event), and the for loop is about to start
ProduceEnter(event) ==
    /\ _instance' = Append(_instance, event)
    /\ produced' = Append(produced, [event |-> event,
                                     handlers |-> Len(_handlers),
                                     state |-> "running"])
    /\ frames' = Append(frames, [call |-> Len(produced) + 1, next |-> 1])

\* the program calls Produce(event)
Produce(event) ==
    /\ frames = <<>>
    /\ Len(produced) < MaxProduce
    /\ ProduceEnter(event)
    /\ UNCHANGED <<_handlers, delivered, fileVars, reading>>

\* the innermost frame, and the frames with its loop moved to the next
\* handler
Top == frames[Len(frames)]
Advanced == [frames EXCEPT ![Len(frames)].next = @ + 1]

\* handler(_instance.front()) for the next handler of the innermost Produce
Invoke ==
    /\ frames # <<>>
    /\ Top.next <= Len(_handlers)
    /\ _instance # <<>>
    /\ delivered' = Append(delivered, [call |-> Top.call, handler |-> Top.next,
                                       event |-> Head(_instance)])
    /\ UNCHANGED <<_handlers, fileVars, reading>>
    /\ CASE _handlers[Top.next] = "reentrant" /\ Head(_instance) = EventA
               /\ Len(frames) = 1 ->
               \* the handler calls Produce(EventB) and returns after it
               /\ _instance' = Append(_instance, EventB)
               /\ produced' = Append(produced, [event |-> EventB,
                                                handlers |-> Len(_handlers),
                                                state |-> "running"])
               /\ frames' = Append(Advanced, [call |-> Len(produced) + 1,
                                              next |-> 1])
         [] _handlers[Top.next] = "throwing" /\ Head(_instance) = EventBad ->
               \* the exception leaves every Produce on the stack
               /\ frames' = <<>>
               /\ produced' = [i \in 1..Len(produced) |->
                                  IF produced[i].state = "running"
                                  THEN [produced[i] EXCEPT !.state = "thrown"]
                                  ELSE produced[i]]
               /\ UNCHANGED _instance
         [] OTHER ->
               /\ frames' = Advanced
               /\ UNCHANGED <<_instance, produced>>

\* the loop is over: _instance.pop_front(), and Produce returns
ProduceReturn ==
    /\ frames # <<>>
    /\ Top.next > Len(_handlers)
    /\ _instance # <<>>
    /\ _instance' = Tail(_instance)
    /\ produced' = [produced EXCEPT ![Top.call].state = "returned"]
    /\ frames' = SubSeq(frames, 1, Len(frames) - 1)
    /\ UNCHANGED <<_handlers, delivered, fileVars, reading>>

NextEvents ==
    \/ \E handler \in HandlerKinds : AddHandler(handler)
    \/ \E event \in Events : Produce(event)
    \/ Invoke
    \/ ProduceReturn

SpecEvents == Init /\ [][NextEvents]_vars

-----------------------------------------------------------------------------
(* Properties *)

\* a block store as a mapping: the set of its [name, data] entries
AsMapping(blocks) == {blocks[i] : i \in 1..Len(blocks)}

\* the block headers a byte stream holds from pos on, walked by the sizes
\* they declare: the name up to its first NUL, the declared size, and where
\* the header starts
RECURSIVE HeadersFrom(_, _)
HeadersFrom(bytes, pos) ==
    IF pos + SizeofPackBlockHeader > Len(bytes) THEN <<>>
    ELSE LET size == U32(SubSeq(bytes, pos + k_BlockNameSize + 1,
                                pos + SizeofPackBlockHeader))
         IN  <<[name |-> CStr(SubSeq(bytes, pos + 1, pos + k_BlockNameSize)),
                size |-> size, at |-> pos]>>
                 \o HeadersFrom(bytes, pos + SizeofPackBlockHeader + size)

Headers(bytes) == HeadersFrom(bytes, Len(k_Magic))

\* where the payload a header declares would end
PayloadEnd(h) == h.at + SizeofPackBlockHeader + h.size

\* the payload bytes that follow a header
PayloadOf(bytes, h) ==
    SubSeq(bytes, h.at + SizeofPackBlockHeader + 1, PayloadEnd(h))

\* the last call was an Open of a buffer that passes header validation
OpenedFramed ==
    /\ call.op = "Open"
    /\ Len(call.input) >= Len(k_Magic) + SizeofPackBlockHeader
    /\ SubSeq(call.input, 1, Len(k_Magic)) = k_Magic

HeaderErrors ==
    {"File too small to be a valid Pack file.", "Unrecognized Pack header",
     "File too small to contain any blocks."}

\* C1: blocks of distinct names created with CreateRawBlock and written with
\* WriteBlocks are read back by ReadBlocks on a fresh PackFile as a store
\* with exactly the same names, each mapped to a byte-identical payload
\* (the empty store, empty payloads and names of 1 to 32 bytes included).
C1_RoundTrip ==
    call.op = "Open" =>
        /\ error = NoError
        /\ AsMapping(_blocks) = AsMapping(authored)

\* C2: once an Open or a Write has succeeded on an instance, every later
\* Open, Write or InsertMesh on it is rejected and leaves the block store and
\* the decoded collections as they were.
C2_Final ==
    [][((_isLoaded \/ hasWritten) /\ nops' # nops
            /\ call'.op \in {"Open", "Write", "InsertMesh"})
          => /\ error' # NoError \/ aborted'
             /\ _blocks' = _blocks
             /\ collections' = collections]_vars

\* the collection each stage of a load fills
StageFills ==
    <<<<"ResolveInfoBlock", _infoBlockLookup>>,
      <<"ExtractTexturesFromBlock", _textures>>,
      <<"ResolveMeshBlock", _meshes>>,
      <<"ResolveBodyBlock", _bodyBlockLookup>>,
      <<"ExtractAnimationsFromBlock", _animations>>,
      <<"ResolveAudioBankSampleTableBlock", _audioSampleHeaders>>,
      <<"ExtractSoundsFromBlock", _audioSampleData>>>>

StagesOf(run) == {run[i] : i \in 1..Len(run)}

\* C3: every failure raised during Open aborts the load at that point: the
\* stages that were not entered have filled nothing, the error carries the
\* file name ("buffer" for an in-memory load), and the instance is not
\* marked loaded.
C3_FailureAborts ==
    (call.op = "Open" /\ error # NoError) =>
        /\ error.filename = "buffer"
        /\ ~_isLoaded
        /\ \A i \in 1..Len(StageFills) :
               StageFills[i][1] \notin StagesOf(stagesRun)
                   => StageFills[i][2] = <<>>

\* C4: ReadBlocks rejects, storing no block, every stream shorter than 8 + 36
\* bytes and every stream whose first 8 bytes are not "LiOnHeAd"; a stream of
\* at least 44 bytes that starts with the magic passes header validation.
C4_HeaderValidation ==
    call.op = "Open" =>
        IF OpenedFramed
        THEN error.what \notin HeaderErrors
        ELSE /\ error.what \in HeaderErrors
             /\ error.filename = "buffer"
             /\ _blocks = <<>>
             /\ stagesRun = <<"ReadBlocks">>
             /\ ~_isLoaded

C4_Witness ==
    /\ call.op = "Open"
    /\ Len(call.input) > Len(k_Magic) + SizeofPackBlockHeader
    /\ error.what = "Unrecognized Pack header"

\* C5: ReadBlocks fails with a duplicate-block error whenever two block
\* headers of the input stream carry the same name, and the payload stored
\* for the first of them is the one the stream gives it.
C5_DuplicateRejected ==
    OpenedFramed =>
        \A i, j \in 1..Len(Headers(call.input)) :
            (i < j /\ Headers(call.input)[i].name = Headers(call.input)[j].name)
                => /\ error.what = "Duplicate block name"
                   /\ GetBlock(_blocks, Headers(call.input)[i].name)
                          = PayloadOf(call.input, Headers(call.input)[i])

\* C6: ReadBlocks fails whenever a block header declares a payload larger
\* than the bytes that remain in the stream after that header.
C6_TruncatedRejected ==
    OpenedFramed =>
        \A i \in 1..Len(Headers(call.input)) :
            PayloadEnd(Headers(call.input)[i]) > Len(call.input)
                => error # NoError

\* the bytes of a stream that follow its last whole block
Trailing(bytes) ==
    Len(bytes) - PayloadEnd(Headers(bytes)[Len(Headers(bytes))])

\* C7: a stream that consists of the magic, one or more whole blocks, and
\* then 1 to 35 extra bytes is rejected.
C7_TrailerRejected ==
    (OpenedFramed /\ Trailing(call.input) \in 1..(SizeofPackBlockHeader - 1))
        => error # NoError

\* 8 plus the framed sizes of the first k blocks of a store
RECURSIVE FramedEnd(_, _)
FramedEnd(blocks, k) ==
    IF k = 0 THEN Len(k_Magic)
    ELSE FramedEnd(blocks, k - 1) + SizeofPackBlockHeader + Len(blocks[k].data)

\* C8: the byte stream WriteBlocks emits for a block store has length
\* 8 + the sum over the blocks of (36 + payload length), starts with
\* "LiOnHeAd", and holds for each block a 36-byte header whose size field is
\* the payload length, immediately followed by the unpadded payload.
C8_WriteBlocksFraming ==
    disk.exists =>
        /\ Len(disk.bytes) = FramedEnd(authored, Len(authored))
        /\ SubSeq(disk.bytes, 1, Len(k_Magic)) = k_Magic
        /\ \A i \in 1..Len(authored) :
               /\ U32(SubSeq(disk.bytes,
                             FramedEnd(authored, i - 1) + k_BlockNameSize + 1,
                             FramedEnd(authored, i - 1) + SizeofPackBlockHeader))
                      = Len(authored[i].data)
               /\ SubSeq(disk.bytes,
                         FramedEnd(authored, i - 1) + SizeofPackBlockHeader + 1,
                         FramedEnd(authored, i)) = authored[i].data

C8_Witness ==
    /\ disk.exists
    /\ Len(authored) = 2
    /\ authored[1].data # <<>>
    /\ authored[2].data = <<>>

CreateOps ==
    {"CreateRawBlock", "CreateMeshBlock", "CreateInfoBlock", "CreateBodyBlock"}

\* the name of the block a creation call targets
TargetName(c) ==
    CASE c.op = "CreateRawBlock" -> c.input[1]
      [] c.op = "CreateMeshBlock" -> NameMESHES
      [] c.op = "CreateInfoBlock" -> NameINFO
      [] c.op = "CreateBodyBlock" -> NameBody

\* C9: CreateRawBlock, CreateMeshBlock, CreateInfoBlock and CreateBodyBlock
\* fail when a block of the target name is in the store, leaving the whole
\* store unchanged; otherwise they add the block and change no other, so
\* each name keeps the payload of its first successful creation.
C9_NeverOverwrites ==
    [][(nops' # nops /\ call'.op \in CreateOps)
          => IF HasBlock(_blocks, TargetName(call'))
             THEN error' # NoError /\ _blocks' = _blocks
             ELSE /\ error' = NoError
                  /\ Len(_blocks') = Len(_blocks) + 1
                  /\ SubSeq(_blocks', 1, Len(_blocks)) = _blocks
                  /\ _blocks'[Len(_blocks')].name = TargetName(call')
                  /\ call'.op = "CreateRawBlock"
                         => _blocks'[Len(_blocks')].data = call'.input[2]]_vars

C9_Witness ==
    /\ call.op = "CreateRawBlock"
    /\ error.what = "Pack file already has a block"
    /\ HasBlock(_blocks, call.input[1])
    /\ GetBlock(_blocks, call.input[1]) # call.input[2]

\* the stream holds a block of that name
StreamHas(bytes, name) ==
    \E i \in 1..Len(Headers(bytes)) : Headers(bytes)[i].name = name

\* the payload of the stream's block of that name
StreamBlock(bytes, name) ==
    PayloadOf(bytes,
              Headers(bytes)[CHOOSE i \in 1..Len(Headers(bytes)) :
                                 Headers(bytes)[i].name = name])

\* meshCount and the offset table of a MESHES payload p
MeshCountOf(p) == U32(SubSeq(p, Len(k_BlockMagic) + 1, Len(k_BlockMagic) + SizeofU32))

MeshTableEnd(p) == Len(k_BlockMagic) + SizeofU32 + SizeofU32 * MeshCountOf(p)

MeshOffsetOf(p, i) ==
    U32(SubSeq(p, Len(k_BlockMagic) + SizeofU32 * i + 1,
               Len(k_BlockMagic) + SizeofU32 * i + SizeofU32))

\* where mesh i ends: at the next offset, the last one at the payload's end
MeshEndOf(p, i) ==
    IF i = MeshCountOf(p) THEN Len(p) ELSE MeshOffsetOf(p, i + 1)

\* a MESHES payload with the sub-magic, its whole offset table, the offsets
\* non-decreasing and none beyond the payload
MeshesWellFormed(p) ==
    /\ Len(p) >= Len(k_BlockMagic) + SizeofU32
    /\ SubSeq(p, 1, Len(k_BlockMagic)) = k_BlockMagic
    /\ Len(p) >= MeshTableEnd(p)
    /\ \A i \in 1..MeshCountOf(p) : MeshOffsetOf(p, i) <= MeshEndOf(p, i)

\* the sizes of the meshes before mesh i, by the offset table
RECURSIVE MeshSizesBefore(_, _)
MeshSizesBefore(p, i) ==
    IF i = 1 THEN 0
    ELSE MeshSizesBefore(p, i - 1)
             + MeshEndOf(p, i - 1) - MeshOffsetOf(p, i - 1)

\* mesh i as the code fills it: its size from the offset table, its bytes the
\* next ones after the table and the meshes before it, zeros once the
\* payload has run out
SequentialMesh(p, i) ==
    [k \in 1..(MeshEndOf(p, i) - MeshOffsetOf(p, i)) |->
        IF MeshTableEnd(p) + MeshSizesBefore(p, i) + k <= Len(p)
        THEN p[MeshTableEnd(p) + MeshSizesBefore(p, i) + k]
        ELSE 0]

\* mesh i as the bytes of the payload from offsets[i] up to where it ends
RangeMesh(p, i) == SubSeq(p, MeshOffsetOf(p, i) + 1, MeshEndOf(p, i))

\* the stream's only block is a well-formed MESHES block
MeshesOnly(bytes) ==
    /\ Len(Headers(bytes)) = 1
    /\ Headers(bytes)[1].name = NameMESHES
    /\ PayloadEnd(Headers(bytes)[1]) = Len(bytes)
    /\ MeshesWellFormed(StreamBlock(bytes, NameMESHES))

\* C10 as amended: a load decodes the MESHES block only when it reaches
\* ResolveMeshBlock, which needs an INFO block in the container; it then
\* decodes exactly meshCount meshes, mesh i of offsets[i+1] - offsets[i]
\* bytes and the last of payloadLength - offsets[last] bytes, filled in order
\* with the bytes that follow the offset table; a container whose only block
\* is MESHES loads and decodes no mesh.
C10_MeshesDecoded ==
    OpenedFramed =>
        /\ ("ResolveMeshBlock" \in StagesOf(stagesRun)
                /\ StreamHas(call.input, NameMESHES)
                /\ MeshesWellFormed(StreamBlock(call.input, NameMESHES)))
             => /\ StreamHas(call.input, NameINFO)
                /\ error.what \notin {"no MESHES block in mesh pack",
                                      "Unrecognized Mesh Block header",
                                      "std::length_error"}
                /\ Len(_meshes) = MeshCountOf(StreamBlock(call.input, NameMESHES))
                /\ \A i \in 1..Len(_meshes) :
                       _meshes[i]
                           = SequentialMesh(StreamBlock(call.input, NameMESHES), i)
        /\ MeshesOnly(call.input)
             => error = NoError /\ _isLoaded /\ _meshes = <<>>

C10_Witness ==
    /\ OpenedFramed
    /\ _isLoaded
    /\ StreamHas(call.input, NameMESHES)
    /\ Len(_meshes) = 2
    /\ Len(_meshes[1]) = 12
    /\ Len(_meshes[2]) = 8
    /\ MeshOffsetOf(StreamBlock(call.input, NameMESHES), 1) = 16

\* C10: loading a container whose only block is a MESHES block decodes
\* exactly meshCount meshes, mesh i being the bytes of the payload from
\* offsets[i] up to offsets[i+1], the last mesh running to the end of the
\* payload.
C10_MeshesOnlyDecoded ==
    (OpenedFramed /\ MeshesOnly(call.input)) =>
        /\ Len(_meshes) = MeshCountOf(StreamBlock(call.input, NameMESHES))
        /\ \A i \in 1..Len(_meshes) :
               _meshes[i] = RangeMesh(StreamBlock(call.input, NameMESHES), i)

\* a MESHES payload with the sub-magic and its whole offset table
MeshesTableWhole(p) ==
    /\ Len(p) >= Len(k_BlockMagic) + SizeofU32
    /\ SubSeq(p, 1, Len(k_BlockMagic)) = k_BlockMagic
    /\ Len(p) >= MeshTableEnd(p)

\* the load reached ResolveMeshBlock on a MESHES block whose offset table
\* decreases somewhere or goes beyond the payload
BadMeshOffsets ==
    /\ OpenedFramed
    /\ "ResolveMeshBlock" \in StagesOf(stagesRun)
    /\ StreamHas(call.input, NameMESHES)
    /\ MeshesTableWhole(StreamBlock(call.input, NameMESHES))
    /\ ~MeshesWellFormed(StreamBlock(call.input, NameMESHES))

\* C11: ResolveMeshBlock fails, producing no mesh, whenever the offset table
\* of the MESHES block is not non-decreasing or holds an offset beyond the
\* payload length.
C11_BadOffsetsNoMesh ==
    BadMeshOffsets => (error # NoError /\ ~_isLoaded /\ _meshes = <<>>)

\* C12: the MESHES block CreateMeshBlock builds has meshCount equal to the
\* number of meshes inserted, a non-decreasing offset table with
\* offsets[i+1] - offsets[i] the length of mesh i, and payloadLength -
\* offsets[last] the length of the last mesh; each mesh lies at its offset.
C12_MeshBlockOffsets ==
    (call.op = "CreateMeshBlock" /\ error = NoError) =>
        /\ MeshesTableWhole(GetBlock(_blocks, NameMESHES))
        /\ MeshCountOf(GetBlock(_blocks, NameMESHES)) = Len(_meshes)
        /\ \A i \in 1..Len(_meshes) :
               /\ MeshOffsetOf(GetBlock(_blocks, NameMESHES), i)
                      <= MeshEndOf(GetBlock(_blocks, NameMESHES), i)
               /\ MeshEndOf(GetBlock(_blocks, NameMESHES), i)
                      - MeshOffsetOf(GetBlock(_blocks, NameMESHES), i)
                      = Len(_meshes[i])
               /\ RangeMesh(GetBlock(_blocks, NameMESHES), i) = _meshes[i]

C12_Witness ==
    /\ call.op = "CreateMeshBlock"
    /\ error = NoError
    /\ Len(_meshes) = 2
    /\ _meshes[1] # <<>>
    /\ _meshes[2] = <<>>

\* C13: Write serializes the meshes the caller inserted: after InsertMesh
\* calls on a PackFile that was not loaded, the file a successful Write leaves
\* holds a MESHES block that encodes those meshes, whether or not the caller
\* created any block.
C13_WriteSynthesizes ==
    (call.op = "Write" /\ error = NoError /\ ~aborted /\ ~_isLoaded
         /\ Len(_meshes) >= 1) =>
        /\ StreamHas(disk.bytes, NameMESHES)
        /\ MeshesTableWhole(StreamBlock(disk.bytes, NameMESHES))
        /\ MeshCountOf(StreamBlock(disk.bytes, NameMESHES)) = Len(_meshes)
        /\ \A i \in 1..Len(_meshes) :
               RangeMesh(StreamBlock(disk.bytes, NameMESHES), i) = _meshes[i]

\* C14: the block CreateInfoBlock builds is decoded by ResolveInfoBlock to
\* the entries of the INFO lookup table, in order, and the block
\* CreateBodyBlock builds is accepted by ResolveBodyBlock and decoded to the
\* entries of the Body lookup table, in order.
C14_LookupRoundTrip ==
    /\ (call.op = "CreateInfoBlock" /\ error = NoError) =>
           \A u \in Undefined :
               /\ Ok(ResolveInfoBlock([Instance EXCEPT !.info = <<>>], u))
               /\ ResolveInfoBlock([Instance EXCEPT !.info = <<>>], u).info
                      = _infoBlockLookup
    /\ (call.op = "CreateBodyBlock" /\ error = NoError) =>
           \A u \in Undefined :
               /\ Ok(ResolveBodyBlock([Instance EXCEPT !.body = <<>>], u))
               /\ ResolveBodyBlock([Instance EXCEPT !.body = <<>>], u).body
                      = _bodyBlockLookup

\* the stages ReadFile runs for a block store, in order
StagesFor(blocks) ==
    <<"ReadBlocks">>
        \o (IF HasBlock(blocks, NameINFO)
            THEN <<"ResolveInfoBlock", "ExtractTexturesFromBlock",
                   "ResolveMeshBlock">>
            ELSE <<>>)
        \o (IF HasBlock(blocks, NameBody)
            THEN <<"ResolveBodyBlock", "ExtractAnimationsFromBlock">>
            ELSE <<>>)
        \o (IF HasBlock(blocks, NameAudioTable)
            THEN <<"ResolveAudioBankSampleTableBlock", "ExtractSoundsFromBlock">>
            ELSE <<>>)

\* the last call was an Open of a buffer that succeeded
OpenSucceeded == call.op = "Open" /\ error = NoError /\ ~aborted

\* C15: on a successful Open the stages run in the order framing, mesh
\* pack, animation pack, sound pack, each exactly when its marker block
\* (INFO, Body, LHAudioBankSampleTable) is in the store; a pack kind that is
\* present is decoded and the collections of an absent one stay empty.
C15_StagesByMarker ==
    OpenSucceeded =>
        /\ _isLoaded
        /\ stagesRun = StagesFor(_blocks)
        /\ IF HasBlock(_blocks, NameINFO)
           THEN /\ Len(_textures) = Len(_infoBlockLookup)
                /\ MeshesTableWhole(GetBlock(_blocks, NameMESHES))
                       => Len(_meshes)
                              = MeshCountOf(GetBlock(_blocks, NameMESHES))
           ELSE _infoBlockLookup = <<>> /\ _textures = <<>> /\ _meshes = <<>>
        /\ IF HasBlock(_blocks, NameBody)
           THEN Len(_animations) = Len(_bodyBlockLookup)
           ELSE _bodyBlockLookup = <<>> /\ _animations = <<>>
        /\ IF HasBlock(_blocks, NameAudioTable)
           THEN /\ Len(_audioSampleHeaders) >= 1
                /\ Len(_audioSampleData) = Len(_audioSampleHeaders)
           ELSE _audioSampleHeaders = <<>> /\ _audioSampleData = <<>>

C15_Witness ==
    /\ OpenSucceeded
    /\ stagesRun = <<"ReadBlocks", "ResolveInfoBlock",
                     "ExtractTexturesFromBlock", "ResolveMeshBlock",
                     "ResolveBodyBlock", "ExtractAnimationsFromBlock",
                     "ResolveAudioBankSampleTableBlock",
                     "ExtractSoundsFromBlock">>
    /\ Len(_textures) = 1
    /\ Len(_meshes) = 2
    /\ Len(_animations) = 1
    /\ Len(_audioSampleData) = 1

\* C16: a required block that is absent makes the operation fail:
\* ResolveInfoBlock without INFO, ResolveMeshBlock without MESHES,
\* ResolveBodyBlock without Body, ResolveAudioBankSampleTableBlock without
\* LHAudioBankSampleTable and ExtractSoundsFromBlock without LHAudioWaveData
\* each throw on the store at hand, and an Open that reaches ResolveMeshBlock
\* without MESHES, ExtractSoundsFromBlock without LHAudioWaveData or
\* ExtractAnimationsFromBlock without some Julien<i> fails with that error
\* and does not mark the instance loaded.
C16_MissingBlockFails ==
    call.op = "Open" =>
        /\ \A u \in Undefined :
               /\ ~HasBlock(_blocks, NameINFO)
                      => ResolveInfoBlock(Instance, u).err.what
                             = "no INFO block in mesh pack"
               /\ ~HasBlock(_blocks, NameMESHES)
                      => ResolveMeshBlock(Instance, u).err.what
                             = "no MESHES block in mesh pack"
               /\ ~HasBlock(_blocks, NameBody)
                      => ResolveBodyBlock(Instance, u).err.what
                             = "no Body block in anim pack"
               /\ ~HasBlock(_blocks, NameWaveData)
                      => ExtractSoundsFromBlock(Instance, u).err.what
                             = "No LHAudioWaveData block in sad pack"
        /\ ~HasBlock(_blocks, NameAudioTable)
               => ResolveAudioBankSampleTableBlock(Instance).err.what
                      = "no LHAudioBankSampleTable block in sad pack"
        /\ ("ResolveMeshBlock" \in StagesOf(stagesRun)
                /\ ~HasBlock(_blocks, NameMESHES))
               => error.what = "no MESHES block in mesh pack" /\ ~_isLoaded
        /\ ("ExtractSoundsFromBlock" \in StagesOf(stagesRun)
                /\ ~HasBlock(_blocks, NameWaveData))
               => error.what = "No LHAudioWaveData block in sad pack"
                      /\ ~_isLoaded
        /\ ("ExtractAnimationsFromBlock" \in StagesOf(stagesRun) /\ ~aborted
                /\ \E i \in 1..Len(_bodyBlockLookup) :
                       ~HasBlock(_blocks, NameJulien \o Dec(i - 1)))
               => error.what = "Required texture block missing" /\ ~_isLoaded

C16_Witness ==
    /\ call.op = "Open"
    /\ HasBlock(_blocks, NameINFO)
    /\ error.what = "no MESHES block in mesh pack"
    /\ ~_isLoaded

\* textureCount as the INFO block of the store declares it
InfoCountOf(blocks) == U32(SubSeq(GetBlock(blocks, NameINFO), 1, SizeofU32))

\* the load ran ResolveInfoBlock on an INFO block that holds its count but
\* fewer than 4 + 8 * textureCount bytes
InfoTruncated ==
    /\ call.op = "Open"
    /\ "ResolveInfoBlock" \in StagesOf(stagesRun)
    /\ Len(GetBlock(_blocks, NameINFO)) >= SizeofU32
    /\ Len(GetBlock(_blocks, NameINFO)) < SizeofU32 + 8 * InfoCountOf(_blocks)

\* C17: ResolveInfoBlock fails whenever the INFO block holds fewer than
\* 4 + 8 * textureCount bytes, and produces no lookup entry that was not read
\* from the block's bytes.
C17_InfoTruncatedFails ==
    InfoTruncated =>
        /\ error # NoError
        /\ stagesRun = <<"ReadBlocks", "ResolveInfoBlock">>
        /\ _infoBlockLookup = <<>>

\* the first 4 bytes of the store's block of that name are "MKJC"
HasSubMagic(blocks, name) ==
    /\ Len(GetBlock(blocks, name)) >= Len(k_BlockMagic)
    /\ SubSeq(GetBlock(blocks, name), 1, Len(k_BlockMagic)) = k_BlockMagic

\* C18: ResolveBodyBlock and ResolveMeshBlock each fail when their block does
\* not start with the 4 bytes "MKJC", and then leave the Body lookup table,
\* respectively the mesh collection, as it was before the call (empty, on a
\* new instance).
C18_SubMagicChecked ==
    (call.op = "Open" /\ ~aborted) =>
        /\ ("ResolveBodyBlock" \in StagesOf(stagesRun)
                /\ ~HasSubMagic(_blocks, NameBody))
             => /\ error.what = "Unrecognized Body Block header"
                /\ _bodyBlockLookup = <<>>
        /\ ("ResolveMeshBlock" \in StagesOf(stagesRun)
                /\ HasBlock(_blocks, NameMESHES)
                /\ ~HasSubMagic(_blocks, NameMESHES))
             => /\ error.what = "Unrecognized Mesh Block header"
                /\ _meshes = <<>>

\* the LHAudioBankSampleTable block of the store, and the sampleCount its
\* first 2 bytes declare
AudioTableOf(blocks) == GetBlock(blocks, NameAudioTable)
SampleCountOf(blocks) == AudioTableOf(blocks)[1] + 256 * AudioTableOf(blocks)[2]

\* the i-th 640-byte header an LHAudioBankSampleTable block holds
HeaderOf(blocks, i) ==
    SubSeq(AudioTableOf(blocks), SizeofU32 + SizeofAudioSample * (i - 1) + 1,
           SizeofU32 + SizeofAudioSample * i)

\* the load ran ResolveAudioBankSampleTableBlock on its block
AudioTableResolved ==
    /\ call.op = "Open"
    /\ ~aborted
    /\ "ResolveAudioBankSampleTableBlock" \in StagesOf(stagesRun)

\* the block declares a count above 0 and holds exactly that many headers
AudioTableExact(blocks) ==
    /\ Len(AudioTableOf(blocks)) >= SizeofU32
    /\ SampleCountOf(blocks) > 0
    /\ Len(AudioTableOf(blocks))
           = SizeofU32 + SizeofAudioSample * SampleCountOf(blocks)

\* C19: ResolveAudioBankSampleTableBlock succeeds exactly when its block
\* declares sampleCount > 0 and is 4 + 640 * sampleCount bytes long, and then
\* yields sampleCount headers; a block declaring sampleCount = 0 fails with
\* the empty-table error and any other length fails with the size-mismatch
\* error (read on the blocks that hold the 2 bytes of their count).
C19_AudioTableOriginal ==
    (AudioTableResolved /\ Len(AudioTableOf(_blocks)) >= 2) =>
        IF AudioTableExact(_blocks)
        THEN /\ Ok(ResolveAudioBankSampleTableBlock(
                       [Instance EXCEPT !.audio = <<>>]))
             /\ Len(_audioSampleHeaders) = SampleCountOf(_blocks)
        ELSE IF SampleCountOf(_blocks) = 0
        THEN error.what = "There are no sound entries"
        ELSE error.what = "Cannot fit all sample headers"

\* C19 as amended: ResolveAudioBankSampleTableBlock succeeds exactly when its
\* block declares sampleCount > 0 and is 4 + 640 * sampleCount bytes long, and
\* then yields exactly the sampleCount headers of the block; a block of at least 4
\* bytes declaring sampleCount = 0 fails with the empty-table error whatever
\* its length, any other block of at least 4 bytes fails with the
\* size-mismatch error, and a block shorter than 4 bytes fails with the error
\* that it cannot fit the sample count.
C19_AudioTableResolver ==
    AudioTableResolved =>
        /\ Ok(ResolveAudioBankSampleTableBlock([Instance EXCEPT !.audio = <<>>]))
               <=> AudioTableExact(_blocks)
        /\ IF AudioTableExact(_blocks)
           THEN /\ "ExtractSoundsFromBlock" \in StagesOf(stagesRun)
                /\ Len(_audioSampleHeaders) = SampleCountOf(_blocks)
                /\ \A i \in 1..Len(_audioSampleHeaders) :
                       _audioSampleHeaders[i] = HeaderOf(_blocks, i)
           ELSE /\ stagesRun[Len(stagesRun)] = "ResolveAudioBankSampleTableBlock"
                /\ error.what =
                       IF Len(AudioTableOf(_blocks)) < SizeofU32
                       THEN "Audio bank block cannot fit sample count"
                       ELSE IF SampleCountOf(_blocks) = 0
                       THEN "There are no sound entries"
                       ELSE "Cannot fit all sample headers"

C19_Witness ==
    /\ AudioTableResolved
    /\ Len(AudioTableOf(_blocks)) = SizeofU32 + SizeofAudioSample
    /\ SampleCountOf(_blocks) = 0
    /\ error.what = "There are no sound entries"

\* the load ran ExtractSoundsFromBlock on a store holding LHAudioWaveData
SoundsExtracted ==
    /\ call.op = "Open"
    /\ ~aborted
    /\ "ExtractSoundsFromBlock" \in StagesOf(stagesRun)
    /\ HasBlock(_blocks, NameWaveData)

\* offset + size of a sample header, as a sum of naturals, is more than n
SampleBeyond(header, n) ==
    \/ U32Exceeds(SampleOffsetBytes(header), n)
    \/ U32Exceeds(SampleSizeBytes(header), n)
    \/ U32(SampleOffsetBytes(header)) + U32(SampleSizeBytes(header)) > n

\* the bytes of LHAudioWaveData a sample header names
SampleSlice(header, data) ==
    SubSeq(data, U32(SampleOffsetBytes(header)) + 1,
           U32(SampleOffsetBytes(header)) + U32(SampleSizeBytes(header)))

\* C20: ExtractSoundsFromBlock fails unless, for every sample header, offset
\* + size computed without wrap-around is at most the length of
\* LHAudioWaveData; when all headers pass there is one sample per header, in
\* header order, sample i being the size bytes of LHAudioWaveData from offset
\* on.
C20_SampleRanges ==
    SoundsExtracted =>
        IF \E i \in 1..Len(_audioSampleHeaders) :
               SampleBeyond(_audioSampleHeaders[i],
                            Len(GetBlock(_blocks, NameWaveData)))
        THEN error # NoError /\ ~_isLoaded
        ELSE /\ error = NoError
             /\ Len(_audioSampleData) = Len(_audioSampleHeaders)
             /\ \A i \in 1..Len(_audioSampleHeaders) :
                    _audioSampleData[i]
                        = SampleSlice(_audioSampleHeaders[i],
                                      GetBlock(_blocks, NameWaveData))

\* the last call was an Open that ended without the process being aborted
Opened == call.op = "Open" /\ ~aborted

\* the DdsHeader bytes that the block of a stored texture holds after its
\* 16-byte header, when block and size field cover them
TextureHasDds(t) ==
    /\ HasBlock(_blocks, t.name)
    /\ Len(GetBlock(_blocks, t.name)) >= SizeofTextureHeader + SizeofDdsHeader
    /\ U32(SubSeq(GetBlock(_blocks, t.name), 1, 4)) >= SizeofDdsHeader
DdsOf(t) ==
    SubSeq(GetBlock(_blocks, t.name), SizeofTextureHeader + 1,
           SizeofTextureHeader + SizeofDdsHeader)

\* ceil(n / 4)
CeilQuarter(n) == IF n % 4 = 0 THEN n \div 4 ELSE n \div 4 + 1

\* the four-character codes with 8-byte blocks, 3-letter codes NUL-padded
EightByteCodes == {<<68, 88, 84, 49>>, <<66, 67, 49, 0>>, <<66, 67, 52, 0>>}

\* pitchOrLinearSize as the specification recomputes it from a DdsHeader
ExpectedPitch(h) ==
    IF U32(SubSeq(h, 17, 20)) # 0 THEN U32(SubSeq(h, 17, 20))
    ELSE CeilQuarter(U32(SubSeq(h, 13, 16))) * CeilQuarter(U32(SubSeq(h, 9, 12)))
             * (IF SubSeq(h, 81, 84) \in EightByteCodes THEN 8 ELSE 16)

\* C21: a texture whose DdsHeader has pitchOrLinearSize = 0 is stored with
\* ceil(width/4) * ceil(height/4) * blockSize in that field, blockSize being
\* 8 for the codes DXT1, BC1 and BC4 (NUL-padded) and 16 for every other
\* code; a non-zero pitchOrLinearSize is stored unchanged.
C21_PitchRecomputed ==
    Opened =>
        \A i \in 1..Len(_textures) :
            TextureHasDds(_textures[i]) =>
                U32(SubSeq(_textures[i].ddsHeader, 17, 20))
                    = ExpectedPitch(DdsOf(_textures[i]))

\* "0123456789abcdef"
LowerHexDigits ==
    <<48, 49, 50, 51, 52, 53, 54, 55, 56, 57, 97, 98, 99, 100, 101, 102>>

\* a number in lowercase hexadecimal without padding, most significant
\* digit first
RECURSIVE HexText(_)
HexText(n) ==
    (IF n \div 16 = 0 THEN <<>> ELSE HexText(n \div 16))
        \o <<LowerHexDigits[(n % 16) + 1]>>

\* the load went through ExtractTexturesFromBlock without an error
TexturesExtracted ==
    /\ Opened
    /\ "ExtractTexturesFromBlock" \in StagesOf(stagesRun)
    /\ stagesRun[Len(stagesRun)] # "ExtractTexturesFromBlock"

\* C22: after a successful extraction the texture collection holds exactly
\* one texture per INFO lookup entry, keyed by the lowercase, unpadded
\* hexadecimal form of the entry's blockId, and read from the block of that
\* name (its 16-byte header is the start of that block).
C22_TextureKeys ==
    TexturesExtracted =>
        /\ Len(_textures) = Len(_infoBlockLookup)
        /\ \A i \in 1..Len(_infoBlockLookup) :
               /\ _textures[i].name = HexText(_infoBlockLookup[i].blockId)
               /\ HasBlock(_blocks, HexText(_infoBlockLookup[i].blockId))
               /\ Len(GetBlock(_blocks, _textures[i].name)) >= SizeofTextureHeader
                      => _textures[i].header
                             = SubSeq(GetBlock(_blocks, _textures[i].name), 1,
                                      SizeofTextureHeader)
        /\ \A i, j \in 1..Len(_textures) :
               _textures[i].name = _textures[j].name => i = j

C22_Witness ==
    /\ TexturesExtracted
    /\ Len(_textures) = 2
    /\ _textures[1].name = <<97, 98>>
    /\ _textures[2].name = <<97>>
    /\ error = NoError

\* the block that INFO entry i names holds a whole 16-byte header whose id
\* field is not the entry's blockId
IdMismatch(i) ==
    /\ HasBlock(_blocks, HexText(_infoBlockLookup[i].blockId))
    /\ Len(GetBlock(_blocks, HexText(_infoBlockLookup[i].blockId)))
           >= SizeofTextureHeader
    /\ U32(SubSeq(GetBlock(_blocks, HexText(_infoBlockLookup[i].blockId)), 5, 8))
           # _infoBlockLookup[i].blockId

\* INFO entry i carries the blockId of an earlier entry
DuplicateId(i) ==
    \E j \in 1..(i - 1) :
        _infoBlockLookup[j].blockId = _infoBlockLookup[i].blockId

\* the INFO entries the extractor must reject
Offending == {i \in 1..Len(_infoBlockLookup) : IdMismatch(i) \/ DuplicateId(i)}

\* the first of them
FirstOffending == CHOOSE i \in Offending : \A j \in Offending : i <= j

\* C23: texture extraction fails when the id field of a texture block's
\* header differs from the blockId of the INFO entry that named it, and when
\* two INFO entries carry the same blockId; no texture is added for the
\* offending entry, and the textures extracted before it stay as they were
\* extracted.
C23_TextureIdChecks ==
    (Opened /\ "ExtractTexturesFromBlock" \in StagesOf(stagesRun)
         /\ Offending # {}) =>
        /\ error # NoError
        /\ ~_isLoaded
        /\ stagesRun[Len(stagesRun)] = "ExtractTexturesFromBlock"
        /\ Len(_textures) < FirstOffending
        /\ Len(_textures) = FirstOffending - 1 =>
               error.what = IF IdMismatch(FirstOffending)
                            THEN "Texture block id is not the same as block id"
                            ELSE "Duplicate texture extracted"
        /\ \A k \in 1..Len(_textures) :
               /\ _textures[k].name = HexText(_infoBlockLookup[k].blockId)
               /\ _textures[k].header
                      = SubSeq(GetBlock(_blocks, _textures[k].name), 1,
                               SizeofTextureHeader)

C23_Witness ==
    /\ Opened
    /\ Offending = {2}
    /\ DuplicateId(2)
    /\ error.what = "Duplicate texture extracted"
    /\ Len(_textures) = 1

\* the block INFO entry i names, and the ddsFileSize field of its header
TextureBlockOf(i) == GetBlock(_blocks, HexText(_infoBlockLookup[i].blockId))
DdsFileSizeOf(i) == U32(SubSeq(TextureBlockOf(i), 13, 16))

\* the DDS stream of entry i: the ddsFileSize bytes after the 16-byte header
DdsStreamOf(i) ==
    SubSeq(TextureBlockOf(i), SizeofTextureHeader + 1,
           SizeofTextureHeader + DdsFileSizeOf(i))

\* entry i names a block that holds its header under the entry's id, then a
\* DDS stream of ddsFileSize bytes that starts with a DdsHeader of the right
\* sizes and a pitchOrLinearSize, and no earlier entry has its blockId
TextureWellFormed(i) ==
    /\ HasBlock(_blocks, HexText(_infoBlockLookup[i].blockId))
    /\ Len(TextureBlockOf(i)) >= SizeofTextureHeader
    /\ ~IdMismatch(i)
    /\ ~DuplicateId(i)
    /\ DdsFileSizeOf(i) >= SizeofDdsHeader
    /\ Len(TextureBlockOf(i)) >= SizeofTextureHeader + DdsFileSizeOf(i)
    /\ U32(SubSeq(DdsStreamOf(i), 1, 4)) = SizeofDdsHeader
    /\ U32(SubSeq(DdsStreamOf(i), 73, 76)) = SizeofDdsPixelFormat
    /\ U32(SubSeq(DdsStreamOf(i), 17, 20)) # 0

\* the pitchOrLinearSize texel bytes a DDS stream gives: those after its
\* DdsHeader, then zeros
TexelsOf(stream) ==
    LET pitch == U32(SubSeq(stream, 17, 20))
        have == IF Len(stream) - SizeofDdsHeader < pitch
                THEN Len(stream) - SizeofDdsHeader ELSE pitch
    IN  SubSeq(stream, SizeofDdsHeader + 1, SizeofDdsHeader + have)
            \o [k \in 1..(pitch - have) |-> 0]

\* C24: the DDS stream of a texture is the ddsFileSize bytes that follow the
\* 16-byte header in its block, also when the size field and the
\* ddsFileSize field differ: the texture of every well-formed entry is
\* stored with the DdsHeader and the texel bytes of that stream.
C24_DdsStreamLength ==
    (Opened /\ "ExtractTexturesFromBlock" \in StagesOf(stagesRun)) =>
        \A i \in 1..Len(_infoBlockLookup) :
            (\A j \in 1..i : TextureWellFormed(j)) =>
                /\ Len(_textures) >= i
                /\ _textures[i].ddsHeader
                       = SubSeq(DdsStreamOf(i), 1, SizeofDdsHeader)
                /\ _textures[i].texels = TexelsOf(DdsStreamOf(i))

\* the load ran ExtractAnimationsFromBlock and every Julien<i> block that
\* the Body lookup table asks for is in the store
AnimationsExtracted ==
    /\ Opened
    /\ "ExtractAnimationsFromBlock" \in StagesOf(stagesRun)
    /\ \A i \in 1..Len(_bodyBlockLookup) :
           HasBlock(_blocks, NameJulien \o Dec(i - 1))

\* Body lookup entry i names 0x54 bytes that lie within the Body block
AnimInRange(i) ==
    _bodyBlockLookup[i].offset + AnimationHeaderSize
        <= Len(GetBlock(_blocks, NameBody))

\* the 0x54 bytes of the Body block that lookup entry i names
AnimHeaderOf(i) ==
    SubSeq(GetBlock(_blocks, NameBody), _bodyBlockLookup[i].offset + 1,
           _bodyBlockLookup[i].offset + AnimationHeaderSize)

\* C25: animation i is the 0x54 bytes of the Body block at entry.offset
\* followed by the whole payload of block Julien<i>; extraction fails when
\* entry.offset + 0x54 exceeds the length of the Body block; and an
\* out-of-range entry never changes the header bytes decoded for a later
\* in-range entry.
C25_AnimationsDecoded ==
    AnimationsExtracted =>
        /\ IF \A i \in 1..Len(_bodyBlockLookup) : AnimInRange(i)
           THEN /\ Len(_animations) = Len(_bodyBlockLookup)
                /\ \A i \in 1..Len(_bodyBlockLookup) :
                       _animations[i]
                           = AnimHeaderOf(i)
                                 \o GetBlock(_blocks, NameJulien \o Dec(i - 1))
           ELSE error # NoError /\ ~_isLoaded
        /\ \A i \in 1..Len(_animations) :
               (AnimInRange(i) /\ _animations[i] # <<>>) =>
                   SubSeq(_animations[i], 1, AnimationHeaderSize)
                       = AnimHeaderOf(i)

\* the stream WriteBlocks emits for a store, its name buffer starting zeroed
StreamOf(blocks) == WriteBlocks(blocks, Zeros(k_BlockNameSize))

\* a step in which a block creation succeeds
CreationStep ==
    /\ nops' # nops
    /\ call'.op \in CreateOps
    /\ error' = NoError
    /\ ~aborted'

WellFormedStream(bytes) ==
    /\ Len(bytes) >= Len(k_Magic) + SizeofPackBlockHeader
    /\ SubSeq(bytes, 1, Len(k_Magic)) = k_Magic
    /\ PayloadEnd(Headers(bytes)[Len(Headers(bytes))]) = Len(bytes)
    /\ \A i, j \in 1..Len(Headers(bytes)) :
           Headers(bytes)[i].name = Headers(bytes)[j].name => i = j

\* C27: ReadBlocks stores every block of a well-formed container whose last
\* block ends exactly at end of file: after the read the store holds exactly
\* the k blocks of the stream with their payloads, also when the last block
\* has a zero-length payload.
C27_EveryBlockStored ==
    (call.op = "Open" /\ ~aborted /\ WellFormedStream(call.input)) =>
        /\ Len(_blocks) = Len(Headers(call.input))
        /\ \A i \in 1..Len(Headers(call.input)) :
               /\ HasBlock(_blocks, Headers(call.input)[i].name)
               /\ GetBlock(_blocks, Headers(call.input)[i].name)
                      = PayloadOf(call.input, Headers(call.input)[i])

\* C28: the block loop of ReadBlocks terminates on every finite input: each
\* iteration advances the stream position by at least 36 bytes or leaves the
\* stream failed, which ends the loop; the iterations number at most
\* (length - 8) / 36; and a call that reached the loop ends, in the success
\* or the error that ReadBlocks gives for the stream.
C28_LoopTerminates ==
    /\ [][(reading.pc = "loop" /\ reading'.iters # reading.iters) =>
              /\ reading'.iters = reading.iters + 1
              /\ reading'.s.pos >= reading.s.pos + SizeofPackBlockHeader \/ reading'.s.fail
              /\ reading'.s.fail => ~ReadBlocksContinues(reading')]_vars
    /\ [](reading.iters = 0
            \/ reading.iters * SizeofPackBlockHeader <= Len(reading.s.buf) - Len(k_Magic))
    /\ [](reading.pc = "done" =>
              /\ reading.err = ReadBlocks(<<>>, reading.s.buf, "buffer").err
              /\ reading.blocks = ReadBlocks(<<>>, reading.s.buf, "buffer").blocks)
    /\ (reading.pc = "loop") ~> (reading.pc = "done")

C28_Witness ==
    /\ reading.pc = "done"
    /\ reading.iters = 2
    /\ reading.s.fail
    /\ reading.err.what = "File not evenly split into whole blocks."

\* the handlers that Produce call c has invoked, in the order of invocation
InvokedBy(c) ==
    SelectSeq(delivered, LAMBDA d : d.call = c)

\* C29: Produce(e) invokes every registered handler exactly once with e, in
\* registration order, and leaves the queue empty when it returns, also when
\* a handler calls Produce on the same queue from inside its callback and,
\* for later calls, after a handler has thrown out of an earlier Produce.
C29_ProduceDelivers ==
    /\ \A k \in 1..Len(delivered) :
           delivered[k].event = produced[delivered[k].call].event
    /\ \A c \in 1..Len(produced) :
           produced[c].state = "returned" =>
               /\ Len(InvokedBy(c)) = produced[c].handlers
               /\ \A k \in 1..Len(InvokedBy(c)) : InvokedBy(c)[k].handler = k
    /\ (frames = <<>> /\ produced # <<>>
            /\ produced[Len(produced)].state = "returned") => _instance = <<>>

=============================================================================
